---------------------------- MODULE Spec2Model ----------------------------
(***************************************************************************)
(* A model of the mortgage market's Lifecycle Engine (market/api/api.py,   *)
(* class MarketAPI) and of the inbound message handlers of                 *)
(* market/community/community.py (class MortgageMarketCommunity).          *)
(*                                                                         *)
(* A participant is one MarketAPI instance with its own database and its   *)
(* own outbound queue.  db[p] is the database of participant p, queue[p]   *)
(* its MessageQueue.  The API methods take a User object, which they read  *)
(* and mutate in place and write back with db.put.  held[u] is defined for *)
(* the users whose object the application keeps from one call to the next  *)
(* (such an object may be older than the stored record); for every other   *)
(* user the application loads the stored record anew for each call.  The   *)
(* database hands out copies: a stored record changes only by post and     *)
(* put.                                                                    *)
(***************************************************************************)
EXTENDS Integers, Sequences, FiniteSets, TLC

VARIABLES
    db,      \* db[p]: the database of participant p, one map per entity type
    held,    \* held[u]: the User object the application keeps for user u
    queue,   \* queue[p]: the outbound MessageQueue of participant p
    ids,     \* the ids generated so far, per entity type
    now,     \* datetime.now(), in days
    directory,  \* directory[p]: api.user_candidate of p, user id -> endpoint
    requests,   \* the signature requests made so far, each with its state
    wire,       \* the signed_confirm messages on their way
    last     \* the last API call or handler run: what, by whom, on what, how it ended

vars == <<db, held, queue, ids, now, directory, requests, wire, last>>

(***************************************************************************)
(* Bounds of the model.                                                    *)
(***************************************************************************)
MaxLoanRequests == 2
MaxMortgages == 2
MaxInvestments == 2
MaxCampaigns == 2
MaxQueue == 2
\* the entities (loan requests, mortgages, investments, campaigns) created in all
MaxEntities == 5
\* no further investment is accepted once a campaign is overfunded by this much
MaxOverfunding == 1
MaxAmount == 2
HousePrice == 3

\* the most messages one call enqueues (create_campaign's two)
MaxEnqueue == 2

\* the days a campaign runs
CAMPAIGN_LENGTH_DAYS == 30

\* the clock is read up to this day, and moves by this many days at a time
MaxNow == 30
DaysPerTick == 15

(***************************************************************************)
(* Users and roles (market/models/role.py: NONE, BORROWER, INVESTOR,       *)
(* FINANCIAL_INSTITUTION).  The role is set once by create_profile.        *)
(***************************************************************************)
Borrowers == {"b1"}
Banks == {"x", "y"}
Investors == {"i1"}
Users == Borrowers \cup Banks \cup Investors

RoleOf(u) ==
    IF u \in Borrowers THEN "BORROWER"
    ELSE IF u \in Banks THEN "FINANCIAL_INSTITUTION"
    ELSE IF u \in Investors THEN "INVESTOR"
    ELSE "NONE"

\* class STATUS(Enum)
STATUS == {"NONE", "PENDING", "ACCEPTED", "REJECTED"}

\* A User as constructed by create_user: every id list empty.  The list
\* loan_request_ids is the one market/api/api.py and the community handlers
\* read and write (models/user.py declares loan_request_id and
\* pending_loan_request_ids in its place).
NewUser ==
    [loan_request_ids |-> <<>>, mortgage_ids |-> <<>>,
     investment_ids |-> <<>>, campaign_ids |-> <<>>]

(***************************************************************************)
(* The Store Adapter: get(type, id), post(type, obj) -> id and             *)
(* put(type, id, obj) -> bool.  A table is a function from the ids present *)
(* to the stored records.                                                  *)
(***************************************************************************)
Has(table, id) == id \in DOMAIN table

\* post: stores obj under a fresh id
Post(table, id, obj) == (id :> obj) @@ table

\* put: replaces what is stored under id; nothing happens when id is absent
Put(table, id, obj) == IF id \in DOMAIN table THEN [table EXCEPT ![id] = obj] ELSE table

EmptyTable == [i \in {} |-> 0]

\* what get returns for an id that is not stored
None == [none |-> TRUE]

\* get: the record stored under id, or None
Get(table, id) == IF id \in DOMAIN table THEN table[id] ELSE None

\* get_all: the stored records, in the order of their ids
RECURSIVE InOrder(_, _)
InOrder(table, idset) ==
    IF idset = {} THEN <<>>
    ELSE LET least == CHOOSE i \in idset : \A j \in idset : i <= j
         IN  <<table[least]>> \o InOrder(table, idset \ {least})

get_all(table) == InOrder(table, DOMAIN table)

EmptyDb ==
    [users |-> EmptyTable, houses |-> EmptyTable, loan_requests |-> EmptyTable,
     mortgages |-> EmptyTable, investments |-> EmptyTable, campaigns |-> EmptyTable]

(***************************************************************************)
(* market/models/loans.py, class Campaign: the funding goal, the amount    *)
(* that remains to be funded and the completed flag.                       *)
(***************************************************************************)
NewCampaign(id, mortgage_id, goal, end_date, completed) ==
    [id |-> id, mortgage_id |-> mortgage_id, goal |-> goal, amount |-> goal,
     end_date |-> end_date, completed |-> completed]

\* Campaign.subtract_amount(investment)
subtract_amount(campaign, investment) ==
    [campaign EXCEPT !.amount = @ - investment,
                     !.completed = (campaign.amount - investment <= 0)]

\* list.remove(x): removes the first occurrence
RECURSIVE Remove(_, _)
Remove(s, x) ==
    IF s = <<>> THEN <<>>
    ELSE IF Head(s) = x THEN Tail(s)
    ELSE <<Head(s)>> \o Remove(Tail(s), x)

InSeq(s, x) == \E i \in 1..Len(s) : s[i] = x

(***************************************************************************)
(* The state one API call works on: the participant's database (st), the   *)
(* caller's User objects (h), the participant's queue (q) and the id       *)
(* generators (n); res is how the call ended.                              *)
(***************************************************************************)
\* the number of entities created so far
Entities == ids.loan_requests + ids.mortgages + ids.investments + ids.campaigns

Ctx(p) ==
    [st |-> db[p], h |-> held, q |-> queue[p], n |-> ids, now |-> now,
     res |-> "none", out |-> <<>>]

Ret(c, res) == [c EXCEPT !.res = res]

\* MessageQueue.add_message(request, fields, models, receivers)
Msg(request, models, receivers) ==
    [request |-> request, models |-> models, receivers |-> receivers]

AddMessage(c, m) == [c EXCEPT !.q = Append(@, m)]

\* The User object a call is handed for user u, and its mutation in place.
Arg(c, u) == IF u \in DOMAIN c.h THEN c.h[u] ELSE c.st.users[u]

SetArg(c, u, obj) == IF u \in DOMAIN c.h THEN [c EXCEPT !.h[u] = obj] ELSE c

(***************************************************************************)
(* MarketAPI.create_loan_request(user, payload)                            *)
(***************************************************************************)
\* the loop over payload['banks']: the request id is appended to each bank's list
RECURSIVE AddToBanks(_, _, _)
AddToBanks(c, banks, lrid) ==
    IF banks = <<>> THEN c
    ELSE IF ~Has(c.st.users, Head(banks)) THEN Ret(c, "AttributeError")
    ELSE LET bank == c.st.users[Head(banks)]
             bank2 == [bank EXCEPT !.loan_request_ids = Append(@, lrid)]
         IN  AddToBanks([c EXCEPT !.st.users = Put(@, Head(banks), bank2)],
                        Tail(banks), lrid)

\* a status map that holds the first listed bank only
PendingFirstBankOnly(banks) ==
    [b \in (IF banks = <<>> THEN {} ELSE {Head(banks)}) |-> "PENDING"]

\* dict().fromkeys(payload['banks'], STATUS.PENDING)
PendingStatus(banks) == [b \in {banks[i] : i \in 1..Len(banks)} |-> "PENDING"]

create_loan_request(c, user, banks, price) ==
    IF RoleOf(user) # "BORROWER" THEN Ret(c, "False")
    ELSE IF Arg(c, user).loan_request_ids # <<>> THEN Ret(c, "False")
    ELSE
      LET id == c.n.loan_requests + 1
          house == [id |-> id, price |-> price]
          loan_request ==
              [id |-> id, user_key |-> user, house_id |-> id,
               banks |-> banks,
               status |-> PendingStatus(banks)]
          user2 == [Arg(c, user) EXCEPT !.loan_request_ids = Append(@, id)]
          c1 == [SetArg(c, user, user2) EXCEPT
                          !.n.loan_requests = id,
                          !.st.houses = Post(@, id, house),
                          !.st.loan_requests = Post(@, id, loan_request),
                          !.st.users = Put(@, user, user2)]
          c2 == AddToBanks(c1, banks, id)
      IN  IF c2.res # "none" THEN c2
          ELSE Ret(AddMessage(c2,
                     Msg("loan_request",
                         [loan_request |-> loan_request, house |-> house],
                         {banks[i] : i \in 1..Len(banks)})),
                   "ok")

\* loan_request.status[bank] = value: sets the entry, adding the key when it is new
SetStatus(status, bank, value) == (bank :> value) @@ status

(***************************************************************************)
(* MarketAPI.accept_loan_request(bank, payload)                            *)
(***************************************************************************)
accept_loan_request(c, bank, request_id, user_key, amount) ==
    IF RoleOf(bank) # "FINANCIAL_INSTITUTION" THEN Ret(c, "AssertionError")
    ELSE IF ~Has(c.st.loan_requests, request_id) THEN Ret(c, "AssertionError")
    ELSE IF ~Has(c.st.users, user_key) THEN Ret(c, "AssertionError")
    ELSE
      LET stored == c.st.loan_requests[request_id]
          loan_request == [stored EXCEPT !.status = SetStatus(@, bank, "ACCEPTED")]
          id == c.n.mortgages + 1
          mortgage ==
              [id |-> id, request_id |-> loan_request.id,
               house_id |-> loan_request.house_id, bank |-> bank,
               amount |-> amount, investors |-> <<>>, campaign_id |-> 0,
               status |-> "PENDING"]
          borrower == [c.st.users[user_key] EXCEPT !.mortgage_ids = Append(@, id)]
          bank2 == [Arg(c, bank) EXCEPT !.mortgage_ids = Append(@, id)]
          c1 == [SetArg(c, bank, bank2) EXCEPT
                          !.n.mortgages = id,
                          !.st.mortgages = Post(@, id, mortgage),
                          !.st.users = Put(Put(@, user_key, borrower), bank, bank2)]
      IN  IF Has(c1.st.loan_requests, loan_request.id)
          THEN Ret(AddMessage(
                     [c1 EXCEPT !.st.loan_requests = Put(@, loan_request.id, loan_request)],
                     Msg("mortgage_offer",
                         [loan_request |-> loan_request, mortgage |-> mortgage],
                         {user_key})),
                   "ok")
          ELSE Ret(c1, "None")

(***************************************************************************)
(* MarketAPI.reject_loan_request(user, payload)                            *)
(***************************************************************************)
AllRejected(status) == \A b \in DOMAIN status : status[b] = "REJECTED"

reject_loan_request(c, user, request_id) ==
    IF ~Has(c.st.loan_requests, request_id) THEN Ret(c, "AssertionError")
    ELSE
      LET stored == c.st.loan_requests[request_id]
          rejected_loan_request ==
              [stored EXCEPT !.status = SetStatus(@, user, "REJECTED")]
      IN
      IF ~Has(c.st.users, rejected_loan_request.user_key) THEN Ret(c, "AssertionError")
      ELSE
        LET borrower == c.st.users[rejected_loan_request.user_key] IN
        IF borrower.loan_request_ids = <<>> THEN Ret(c, "IndexError")
        ELSE
          LET loan_request_id == borrower.loan_request_ids[1] IN
          IF ~InSeq(Arg(c, user).loan_request_ids, loan_request_id)
          THEN Ret(c, "ValueError")
          ELSE
            LET c1 == SetArg(c, user, [Arg(c, user) EXCEPT
                                         !.loan_request_ids = Remove(@, loan_request_id)])
                borrower2 ==
                    [borrower EXCEPT !.loan_request_ids = Remove(@, loan_request_id)]
                c2 == IF AllRejected(rejected_loan_request.status)
                      THEN [c1 EXCEPT !.st.users =
                                Put(@, rejected_loan_request.user_key, borrower2)]
                      ELSE c1
            IN  IF Has(c2.st.loan_requests, loan_request_id)
                THEN Ret(AddMessage(
                           [c2 EXCEPT !.st.loan_requests =
                                Put(@, loan_request_id, rejected_loan_request)],
                           Msg("loan_request_reject",
                               [loan_request |-> rejected_loan_request],
                               {rejected_loan_request.user_key})),
                         "ok")
                ELSE Ret(c2, "None")

(***************************************************************************)
(* MarketAPI.create_campaign(user, mortgage, loan_request)                 *)
(***************************************************************************)
\* a goal that forgets the bank's share
FinanceGoalWholePrice(house, mortgage) == house.price

\* finance_goal = house.price - mortgage.amount
FinanceGoal(house, mortgage) == house.price - mortgage.amount

create_campaign(c, user, mortgage, loan_request) ==
    IF ~Has(c.st.houses, mortgage.house_id) THEN Ret(c, "AttributeError")
    ELSE
      LET house == c.st.houses[mortgage.house_id]
          end_date == c.now + CAMPAIGN_LENGTH_DAYS
          finance_goal == FinanceGoal(house, mortgage)
          id == c.n.campaigns + 1
          campaign == NewCampaign(id, mortgage.id, finance_goal, end_date, FALSE)
          user2 == [Arg(c, user) EXCEPT !.campaign_ids = Append(@, id)]
          c1 == [SetArg(c, user, user2) EXCEPT
                          !.n.campaigns = id,
                          !.st.campaigns = Post(@, id, campaign)]
      IN
      IF ~Has(c.st.users, mortgage.bank) THEN Ret(c1, "AttributeError")
      ELSE
        LET bank == [c.st.users[mortgage.bank] EXCEPT !.campaign_ids = Append(@, id)]
            mortgage2 == [mortgage EXCEPT !.campaign_id = id]
            c2 == [c1 EXCEPT !.st.users = Put(@, mortgage.bank, bank),
                             !.st.mortgages = Put(@, mortgage2.id, mortgage2)]
            models == [mortgage |-> mortgage2, campaign |-> campaign]
            c3 == AddMessage(AddMessage(c2,
                      Msg("mortgage_accept_signed", models, {mortgage.bank})),
                      Msg("mortgage_accept_unsigned", models, {}))
        IN  IF Has(c3.st.users, user)
            THEN Ret([c3 EXCEPT !.st.users = Put(@, user, user2)], "ok")
            ELSE Ret(c3, "False")

(***************************************************************************)
(* MarketAPI.accept_mortgage_offer(user, payload)                          *)
(***************************************************************************)
\* loan_request.status[mortgage.bank] = ACCEPTED, every other bank REJECTED
AcceptBank(status, bank) ==
    [b \in DOMAIN status \cup {bank} |-> IF b = bank THEN "ACCEPTED" ELSE "REJECTED"]

accept_mortgage_offer(c, user, mortgage_id) ==
    IF ~Has(c.st.mortgages, mortgage_id) THEN Ret(c, "AssertionError")
    ELSE IF ~Has(c.st.loan_requests, c.st.mortgages[mortgage_id].request_id)
    THEN Ret(c, "AssertionError")
    ELSE
      LET stored == c.st.mortgages[mortgage_id]
          loan_request ==
              [c.st.loan_requests[stored.request_id] EXCEPT
                  !.status = AcceptBank(@, stored.bank)]
          mortgage == [stored EXCEPT !.status = "ACCEPTED"]
          user2 == [Arg(c, user) EXCEPT !.mortgage_ids = Append(@, mortgage.id)]
          c1 == [SetArg(c, user, user2) EXCEPT
                    !.st.mortgages = Put(@, mortgage.id, mortgage),
                    !.st.loan_requests = Put(@, loan_request.id, loan_request),
                    !.st.users = Put(@, user, user2)]
      IN  create_campaign(c1, user, mortgage, loan_request)

(***************************************************************************)
(* MarketAPI.reject_mortgage_offer(user, payload)                          *)
(***************************************************************************)
reject_mortgage_offer(c, user, mortgage_id) ==
    IF ~Has(c.st.mortgages, mortgage_id) THEN Ret(c, "AttributeError")
    ELSE IF ~Has(c.st.loan_requests, c.st.mortgages[mortgage_id].request_id)
    THEN Ret(c, "AttributeError")
    ELSE IF ~Has(c.st.users, user) THEN Ret(c, "AttributeError")
    ELSE
      LET mortgage == [c.st.mortgages[mortgage_id] EXCEPT !.status = "REJECTED"]
          loan_request ==
              [c.st.loan_requests[mortgage.request_id] EXCEPT
                  !.status = SetStatus(@, mortgage.bank, "REJECTED")]
          user0 == c.st.users[user]
      IN
      IF ~InSeq(user0.mortgage_ids, mortgage.id) THEN Ret(c, "ValueError")
      ELSE
        LET user2 == [user0 EXCEPT !.mortgage_ids = Remove(@, mortgage.id)]
            c1 == AddMessage(
                    [c EXCEPT !.st.mortgages = Put(@, mortgage.id, mortgage)],
                    Msg("mortgage_reject", [mortgage |-> mortgage], {mortgage.bank}))
        IN  IF Has(c1.st.loan_requests, loan_request.id)
            THEN Ret([c1 EXCEPT
                        !.st.loan_requests = Put(@, loan_request.id, loan_request),
                        !.st.users = Put(@, user, user2)], "ok")
            ELSE Ret(c1, "False")

(***************************************************************************)
(* MarketAPI.place_loan_offer(investor, payload)                           *)
(***************************************************************************)
place_loan_offer(c, investor, amount, mortgage_id) ==
    IF RoleOf(investor) # "INVESTOR" THEN Ret(c, "False")
    ELSE
      LET id == c.n.investments + 1
          investment ==
              [id |-> id, investor_key |-> investor, amount |-> amount,
               mortgage_id |-> mortgage_id, status |-> "PENDING"]
          investor2 == [Arg(c, investor) EXCEPT !.investment_ids = Append(@, id)]
          c1 == [SetArg(c, investor, investor2) EXCEPT
                    !.n.investments = id,
                    !.st.investments = Post(@, id, investment),
                    !.st.users = Put(@, investor, investor2)]
      IN
      IF ~Has(c1.st.mortgages, mortgage_id) THEN Ret(c1, "AttributeError")
      ELSE
        LET mortgage == [c1.st.mortgages[mortgage_id] EXCEPT
                            !.investors = Append(@, investor)]
            c2 == [c1 EXCEPT !.st.mortgages = Put(@, mortgage.id, mortgage)]
        IN
        IF ~Has(c2.st.loan_requests, mortgage.request_id)
        THEN Ret(c2, "AttributeError")
        ELSE IF ~Has(c2.st.users, c2.st.loan_requests[mortgage.request_id].user_key)
        THEN Ret(c2, "AttributeError")
        ELSE
          LET key == c2.st.loan_requests[mortgage.request_id].user_key
              borrower == [c2.st.users[key] EXCEPT !.investment_ids = Append(@, id)]
          IN  Ret(AddMessage(
                    [c2 EXCEPT !.st.users = Put(@, key, borrower)],
                    Msg("investment_offer", [investment |-> investment], {key})),
                  "ok")

(***************************************************************************)
(* MarketAPI.accept_investment_offer(user, payload)                        *)
(***************************************************************************)
\* The loop over user.campaign_ids: where it stops.  0: a campaign id that is
\* not stored (the assert fails); otherwise the index of the first campaign of
\* the investment's mortgage, or of the last campaign when there is none.
RECURSIVE CampaignLoop(_, _, _, _)
CampaignLoop(campaigns, campaign_ids, i, mortgage_id) ==
    IF ~Has(campaigns, campaign_ids[i]) THEN 0
    ELSE IF campaigns[campaign_ids[i]].mortgage_id = mortgage_id THEN i
    ELSE IF i = Len(campaign_ids) THEN i
    ELSE CampaignLoop(campaigns, campaign_ids, i + 1, mortgage_id)

accept_investment_offer(c, user, investment_id) ==
    IF ~Has(c.st.investments, investment_id) THEN Ret(c, "AssertionError")
    ELSE IF ~Has(c.st.users, user) THEN Ret(c, "AttributeError")
    ELSE IF c.st.users[user].campaign_ids = <<>> THEN Ret(c, "AssertionError")
    ELSE
      LET campaign_ids == c.st.users[user].campaign_ids
          stored == c.st.investments[investment_id]
          i == CampaignLoop(c.st.campaigns, campaign_ids, 1, stored.mortgage_id)
      IN
      IF i = 0 THEN Ret(c, "AssertionError")
      ELSE
        LET investment == [stored EXCEPT !.status = "ACCEPTED"]
            campaign == subtract_amount(c.st.campaigns[campaign_ids[i]],
                                        investment.amount)
        IN  Ret(AddMessage(
                  [c EXCEPT !.st.investments = Put(@, investment.id, investment),
                            !.st.campaigns = Put(@, campaign.id, campaign)],
                  Msg("investment_accept", [investment |-> investment],
                      {investment.investor_key})),
                "ok")

(***************************************************************************)
(* MarketAPI.reject_investment_offer(user, payload)                        *)
(***************************************************************************)
\* a rejection that tells the investor nothing
reject_investment_offer_unannounced(c, user, investment_id) ==
    IF ~Has(c.st.investments, investment_id) THEN Ret(c, "AttributeError")
    ELSE
      LET investment == [c.st.investments[investment_id] EXCEPT !.status = "REJECTED"]
      IN  Ret([c EXCEPT !.st.investments = Put(@, investment.id, investment)], "ok")

reject_investment_offer(c, user, investment_id) ==
    IF ~Has(c.st.investments, investment_id) THEN Ret(c, "AttributeError")
    ELSE
      LET investment == [c.st.investments[investment_id] EXCEPT !.status = "REJECTED"]
      IN  Ret(AddMessage(
                [c EXCEPT !.st.investments = Put(@, investment.id, investment)],
                Msg("investment_reject", [investment |-> investment],
                    {investment.investor_key})),
              "ok")

(***************************************************************************)
(* The read operations.  Each returns its list in out; a loop that fails   *)
(* returns the error and no list.                                          *)
(***************************************************************************)
Failed(error) == [res |-> error, out |-> <<>>]

Returned(c, r) == [c EXCEPT !.res = r.res, !.out = r.out]

\* a test that still lists a campaign on its end date
OpenOnEndDate(campaign, today) == campaign.end_date >= today /\ ~campaign.completed

\* campaign.end_date > datetime.now() and not campaign.completed
IsOpen(campaign, today) == campaign.end_date > today /\ ~campaign.completed

\* MarketAPI.load_open_market()
RECURSIVE OpenMarketLoop(_, _, _)
OpenMarketLoop(c, campaigns, mortgages) ==
    IF campaigns = <<>> THEN [res |-> "ok", out |-> mortgages]
    ELSE LET campaign == Head(campaigns) IN
         IF IsOpen(campaign, c.now)
         THEN IF ~Has(c.st.mortgages, campaign.mortgage_id) THEN Failed("AttributeError")
              ELSE LET mortgage == c.st.mortgages[campaign.mortgage_id]
                       house == Get(c.st.houses, mortgage.house_id)
                   IN  OpenMarketLoop(c, Tail(campaigns),
                                      Append(mortgages, <<mortgage, campaign, house>>))
         ELSE OpenMarketLoop(c, Tail(campaigns), mortgages)

\* a load that also marks the campaigns past their end date completed
load_open_market_closing(c) ==
    [Returned(c, OpenMarketLoop(c, get_all(c.st.campaigns), <<>>))
        EXCEPT !.st.campaigns =
                  [id \in DOMAIN @ |-> IF @[id].end_date > c.now THEN @[id]
                                       ELSE [@[id] EXCEPT !.completed = TRUE]]]

load_open_market(c) == Returned(c, OpenMarketLoop(c, get_all(c.st.campaigns), <<>>))

\* the loop over an investor's investment_ids: the investments of the wanted
\* status (and, when any_mortgage is false, of the given mortgage) are appended
RECURSIVE InvestmentsLoop(_, _, _, _, _, _)
InvestmentsLoop(c, investment_ids, status, any_mortgage, mortgage_id, acc) ==
    IF investment_ids = <<>> THEN [res |-> "ok", out |-> acc]
    ELSE IF ~Has(c.st.investments, Head(investment_ids)) THEN Failed("AttributeError")
    ELSE LET investment == c.st.investments[Head(investment_ids)]
             keep == /\ investment.status = status
                     /\ (any_mortgage \/ investment.mortgage_id = mortgage_id)
         IN  InvestmentsLoop(c, Tail(investment_ids), status, any_mortgage, mortgage_id,
                             IF keep THEN Append(acc, investment) ELSE acc)

\* the loop over mortgage.investors
RECURSIVE InvestorsLoop(_, _, _, _, _, _)
InvestorsLoop(c, investors, status, any_mortgage, mortgage_id, acc) ==
    IF investors = <<>> THEN [res |-> "ok", out |-> acc]
    ELSE IF ~Has(c.st.users, Head(investors)) THEN Failed("AttributeError")
    ELSE LET r == InvestmentsLoop(c, c.st.users[Head(investors)].investment_ids,
                                  status, any_mortgage, mortgage_id, acc)
         IN  IF r.res # "ok" THEN r
             ELSE InvestorsLoop(c, Tail(investors), status, any_mortgage, mortgage_id,
                                r.out)

\* MarketAPI.load_borrowers_loans(user)
RECURSIVE BorrowersLoansLoop(_, _, _, _)
BorrowersLoansLoop(c, user, mortgage_ids, loans) ==
    IF mortgage_ids = <<>> THEN [res |-> "ok", out |-> loans]
    ELSE IF ~Has(c.st.mortgages, Head(mortgage_ids)) THEN Failed("AttributeError")
    ELSE LET mortgage == c.st.mortgages[Head(mortgage_ids)] IN
         IF mortgage.status # "ACCEPTED"
         THEN BorrowersLoansLoop(c, user, Tail(mortgage_ids), loans)
         ELSE IF user.campaign_ids = <<>> THEN Failed("IndexError")
         ELSE LET r == InvestorsLoop(c, mortgage.investors, "ACCEPTED", FALSE,
                                     Head(mortgage_ids), Append(loans, mortgage))
              IN  IF r.res # "ok" THEN r
                  ELSE BorrowersLoansLoop(c, user, Tail(mortgage_ids), r.out)

load_borrowers_loans(c, user) ==
    IF ~Has(c.st.users, user) THEN Ret(c, "AttributeError")
    ELSE Returned(c, BorrowersLoansLoop(c, c.st.users[user],
                                        c.st.users[user].mortgage_ids, <<>>))

\* MarketAPI.load_borrowers_offers(user): the first ACCEPTED mortgage ends the
\* loop with the PENDING investments of its investors
RECURSIVE BorrowersOffersLoop(_, _, _)
BorrowersOffersLoop(c, mortgage_ids, offers) ==
    IF mortgage_ids = <<>> THEN [res |-> "ok", out |-> offers]
    ELSE IF ~Has(c.st.mortgages, Head(mortgage_ids)) THEN Failed("AttributeError")
    ELSE LET mortgage == c.st.mortgages[Head(mortgage_ids)] IN
         IF mortgage.status = "ACCEPTED"
         THEN InvestorsLoop(c, mortgage.investors, "PENDING", TRUE, 0, offers)
         ELSE IF mortgage.status = "PENDING"
         THEN BorrowersOffersLoop(c, Tail(mortgage_ids), Append(offers, mortgage))
         ELSE BorrowersOffersLoop(c, Tail(mortgage_ids), offers)

load_borrowers_offers(c, user) ==
    IF ~Has(c.st.users, user) THEN Ret(c, "AttributeError")
    ELSE Returned(c, BorrowersOffersLoop(c, c.st.users[user].mortgage_ids, <<>>))

\* MarketAPI.load_bids(payload)
load_bids(c, mortgage_id) ==
    IF ~Has(c.st.mortgages, mortgage_id) THEN Ret(c, "AttributeError")
    ELSE IF ~Has(c.st.loan_requests, c.st.mortgages[mortgage_id].request_id)
    THEN Ret(c, "AttributeError")
    ELSE
      LET loan_request == c.st.loan_requests[c.st.mortgages[mortgage_id].request_id] IN
      IF ~Has(c.st.users, loan_request.user_key) THEN Ret(c, "AttributeError")
      ELSE
        LET borrower == c.st.users[loan_request.user_key]
            bids == [i \in 1..Len(borrower.investment_ids) |->
                        Get(c.st.investments, borrower.investment_ids[i])]
            house == Get(c.st.houses, loan_request.house_id)
        IN  IF borrower.campaign_ids = <<>> THEN Ret(c, "IndexError")
            ELSE Returned(c, [res |-> "ok",
                              out |-> <<bids, house,
                                        Get(c.st.campaigns, borrower.campaign_ids[1])>>])

\* MarketAPI.load_all_loan_requests(user)
RECURSIVE AllLoanRequestsLoop(_, _, _, _)
AllLoanRequestsLoop(c, user, loan_request_ids, pending_loan_requests) ==
    IF loan_request_ids = <<>> THEN [res |-> "ok", out |-> pending_loan_requests]
    ELSE IF ~Has(c.st.loan_requests, Head(loan_request_ids)) THEN Failed("AttributeError")
    ELSE LET loan_request == c.st.loan_requests[Head(loan_request_ids)] IN
         IF user \notin DOMAIN loan_request.status THEN Failed("KeyError")
         ELSE IF loan_request.status[user] = "PENDING"
         THEN AllLoanRequestsLoop(c, user, Tail(loan_request_ids),
                  Append(pending_loan_requests,
                         <<loan_request, Get(c.st.houses, loan_request.house_id)>>))
         ELSE AllLoanRequestsLoop(c, user, Tail(loan_request_ids), pending_loan_requests)

load_all_loan_requests(c, user) ==
    IF ~Has(c.st.users, user) THEN Ret(c, "AttributeError")
    ELSE Returned(c, AllLoanRequestsLoop(c, user, c.st.users[user].loan_request_ids, <<>>))

(***************************************************************************)
(* One step of participant p: the call's outcome replaces p's database and *)
(* queue, the callers' objects and the id generators.                      *)
(***************************************************************************)
Apply(p, c, op, actor, target) ==
    /\ db' = [db EXCEPT ![p] = c.st]
    /\ held' = c.h
    /\ queue' = [queue EXCEPT ![p] = c.q]
    /\ ids' = c.n
    /\ now' = now
    /\ last' = [p |-> p, op |-> op, actor |-> actor, target |-> target,
                res |-> c.res, out |-> c.out]
    /\ UNCHANGED <<directory, requests, wire>>

\* the bank lists a borrower may put in payload['banks']
BankLists == {<<"x">>, <<"x", "y">>}

Hub == "hub"

NoCall ==
    [p |-> "none", op |-> "init", actor |-> "none", target |-> 0, res |-> "none",
     out |-> <<>>]

CreateLoanRequest(p, user) ==
    /\ ids.loan_requests < MaxLoanRequests
    /\ Entities < MaxEntities
    /\ Len(queue[p]) + MaxEnqueue <= MaxQueue
    /\ \E banks \in BankLists :
         Apply(p, create_loan_request(Ctx(p), user, banks, HousePrice),
               "create_loan_request", user, ids.loan_requests + 1)

\* the amounts an investor offers, and the amounts a bank offers to finance
Amounts == 1..MaxAmount

MortgageAmounts == {1}

\* a bank accepts a request, offering one of the given amounts
AcceptLoanRequestFor(p, bank, amounts) ==
    /\ ids.mortgages < MaxMortgages
    /\ Entities < MaxEntities
    /\ Len(queue[p]) + MaxEnqueue <= MaxQueue
    /\ \E request_id \in 1..MaxLoanRequests, amount \in amounts :
         LET user_key == IF Has(db[p].loan_requests, request_id)
                         THEN db[p].loan_requests[request_id].user_key
                         ELSE "b1"
         IN  Apply(p, accept_loan_request(Ctx(p), bank, request_id, user_key, amount),
                   "accept_loan_request", bank, request_id)

AcceptLoanRequest(p, bank) == AcceptLoanRequestFor(p, bank, MortgageAmounts)

RejectLoanRequest(p, user) ==
    /\ Len(queue[p]) + MaxEnqueue <= MaxQueue
    /\ \E request_id \in 1..MaxLoanRequests :
         Apply(p, reject_loan_request(Ctx(p), user, request_id),
               "reject_loan_request", user, request_id)

AcceptMortgageOffer(p, user) ==
    /\ ids.campaigns < MaxCampaigns
    /\ Entities < MaxEntities
    /\ Len(queue[p]) + MaxEnqueue <= MaxQueue
    /\ \E mortgage_id \in 1..MaxMortgages :
         Apply(p, accept_mortgage_offer(Ctx(p), user, mortgage_id),
               "accept_mortgage_offer", user, mortgage_id)

RejectMortgageOffer(p, user) ==
    /\ Len(queue[p]) + MaxEnqueue <= MaxQueue
    /\ \E mortgage_id \in 1..MaxMortgages :
         Apply(p, reject_mortgage_offer(Ctx(p), user, mortgage_id),
               "reject_mortgage_offer", user, mortgage_id)

PlaceLoanOffer(p, investor) ==
    /\ ids.investments < MaxInvestments
    /\ Entities < MaxEntities
    /\ Len(queue[p]) + MaxEnqueue <= MaxQueue
    /\ \E mortgage_id \in 1..MaxMortgages, amount \in Amounts :
         Apply(p, place_loan_offer(Ctx(p), investor, amount, mortgage_id),
               "place_loan_offer", investor, mortgage_id)

AcceptInvestmentOffer(p, user) ==
    /\ Len(queue[p]) + MaxEnqueue <= MaxQueue
    /\ \A id \in DOMAIN db[p].campaigns : db[p].campaigns[id].amount > -MaxOverfunding
    /\ \E investment_id \in 1..MaxInvestments :
         Apply(p, accept_investment_offer(Ctx(p), user, investment_id),
               "accept_investment_offer", user, investment_id)

RejectInvestmentOffer(p, user) ==
    /\ Len(queue[p]) + MaxEnqueue <= MaxQueue
    /\ \E investment_id \in 1..MaxInvestments :
         Apply(p, reject_investment_offer(Ctx(p), user, investment_id),
               "reject_investment_offer", user, investment_id)

LoadOpenMarket(p) ==
    Apply(p, load_open_market(Ctx(p)), "load_open_market", "none", 0)

LoadBorrowersLoans(p, user) ==
    Apply(p, load_borrowers_loans(Ctx(p), user), "load_borrowers_loans", user, 0)

LoadBorrowersOffers(p, user) ==
    Apply(p, load_borrowers_offers(Ctx(p), user), "load_borrowers_offers", user, 0)

LoadBids(p) ==
    \E mortgage_id \in 1..MaxMortgages :
        Apply(p, load_bids(Ctx(p), mortgage_id), "load_bids", "none", mortgage_id)

LoadAllLoanRequests(p, user) ==
    Apply(p, load_all_loan_requests(Ctx(p), user), "load_all_loan_requests", user, 0)

\* Time passes.
Tick ==
    /\ now + DaysPerTick <= MaxNow
    /\ now' = now + DaysPerTick
    /\ last' = [NoCall EXCEPT !.op = "tick", !.res = "ok"]
    /\ UNCHANGED <<db, held, queue, ids, directory, requests, wire>>

(***************************************************************************)
(* The inbound handlers of MortgageMarketCommunity.  st is the receiver's  *)
(* database, self the receiver (community.user, which each handler loads   *)
(* anew from the database before changing it), sender and user the sending *)
(* participant and its User record, m the message.                         *)
(***************************************************************************)
\* DatabaseModel.post_or_put(db): stores obj under id, replacing what is there
PostOrPut(table, id, obj) == (id :> obj) @@ table

on_loan_request_receive(st, self, sender, user, m) ==
    LET loan_request == m.models.loan_request
        house == m.models.house
        st1 == [st EXCEPT !.users = PostOrPut(@, sender, user),
                          !.loan_requests = PostOrPut(@, loan_request.id, loan_request),
                          !.houses = PostOrPut(@, house.id, house)]
    IN  IF InSeq(loan_request.banks, self)
        THEN [st1 EXCEPT !.users[self].loan_request_ids = Append(@, loan_request.id)]
        ELSE st1

\* the loop "for _, status in loan_request.banks" unpacks a bank id: it ends
\* the handler unless the list is empty
on_loan_request_reject(st, self, sender, user, m) ==
    LET loan_request == m.models.loan_request
        st1 == [st EXCEPT !.users = PostOrPut(@, sender, user),
                          !.loan_requests = PostOrPut(@, loan_request.id, loan_request)]
    IN  IF loan_request.banks # <<>> THEN st1
        ELSE [st1 EXCEPT !.users[self].loan_request_ids = <<>>]

on_mortgage_offer(st, self, sender, user, m) ==
    LET loan_request == m.models.loan_request
        mortgage == m.models.mortgage
        st1 == [st EXCEPT !.loan_requests = PostOrPut(@, loan_request.id, loan_request),
                          !.mortgages = PostOrPut(@, mortgage.id, mortgage)]
    IN  IF InSeq(st1.users[self].mortgage_ids, mortgage.id) THEN st1
        ELSE [st1 EXCEPT !.users[self].mortgage_ids = Append(@, mortgage.id)]

on_mortgage_accept_signed(st, self, sender, user, m) ==
    LET mortgage == m.models.mortgage
        campaign == m.models.campaign
        st1 == [st EXCEPT !.users = PostOrPut(@, sender, user),
                          !.mortgages = PostOrPut(@, mortgage.id, mortgage),
                          !.campaigns = PostOrPut(@, campaign.id, campaign)]
    IN  [st1 EXCEPT !.users[self].campaign_ids = Append(@, campaign.id)]

\* payload.models[LoanRequest._type]: a KeyError when the message has none
on_mortgage_accept_unsigned(st, self, sender, user, m) ==
    IF "loan_request" \notin DOMAIN m.models THEN st
    ELSE LET loan_request == m.models.loan_request
             mortgage == m.models.mortgage
             campaign == m.models.campaign
         IN  [st EXCEPT !.users = PostOrPut(@, sender, user),
                        !.loan_requests = PostOrPut(@, loan_request.id, loan_request),
                        !.mortgages = PostOrPut(@, mortgage.id, mortgage),
                        !.campaigns = PostOrPut(@, campaign.id, campaign)]

on_mortgage_reject(st, self, sender, user, m) ==
    LET mortgage == m.models.mortgage
        st1 == [st EXCEPT !.users = PostOrPut(@, sender, user),
                          !.mortgages = PostOrPut(@, mortgage.id, mortgage)]
    IN  IF ~InSeq(st1.users[self].mortgage_ids, mortgage.id) THEN st1
        ELSE [st1 EXCEPT !.users[self].mortgage_ids = Remove(@, mortgage.id)]

on_investment_offer(st, self, sender, user, m) ==
    LET investment == m.models.investment
        st1 == [st EXCEPT !.users = PostOrPut(@, sender, user),
                          !.investments = PostOrPut(@, investment.id, investment)]
    IN  [st1 EXCEPT !.users[self].investment_ids = Append(@, investment.id)]

on_investment_accept(st, self, sender, user, m) ==
    LET investment == m.models.investment
    IN  [st EXCEPT !.users = PostOrPut(@, sender, user),
                   !.investments = PostOrPut(@, investment.id, investment)]

on_investment_reject(st, self, sender, user, m) ==
    LET investment == m.models.investment
        st1 == [st EXCEPT !.users = PostOrPut(@, sender, user),
                          !.investments = PostOrPut(@, investment.id, investment)]
    IN  IF ~InSeq(st1.users[self].investment_ids, investment.id) THEN st1
        ELSE [st1 EXCEPT !.users[self].investment_ids = Remove(@, investment.id)]

\* The exception the handler of message m ends with, or "none": the unpacking
\* of a bank id in on_loan_request_reject, payload.models[LoanRequest._type]
\* of a mortgage_accept_unsigned without one, and list.remove of an id that is
\* not in the receiver's list in on_mortgage_reject and on_investment_reject.
Raises(st, self, sender, user, m) ==
    LET users == PostOrPut(st.users, sender, user) IN
    CASE m.request = "loan_request_reject" ->
            IF m.models.loan_request.banks # <<>> THEN "ValueError" ELSE "none"
      [] m.request = "mortgage_accept_unsigned" ->
            IF "loan_request" \notin DOMAIN m.models THEN "KeyError" ELSE "none"
      [] m.request = "mortgage_reject" ->
            IF ~InSeq(users[self].mortgage_ids, m.models.mortgage.id)
            THEN "ValueError" ELSE "none"
      [] m.request = "investment_reject" ->
            IF ~InSeq(users[self].investment_ids, m.models.investment.id)
            THEN "ValueError" ELSE "none"
      [] OTHER -> "none"

\* The Inbound Dispatcher: the handler of the message's request kind.
Dispatch(st, self, sender, user, m) ==
    CASE m.request = "loan_request" -> on_loan_request_receive(st, self, sender, user, m)
      [] m.request = "loan_request_reject" -> on_loan_request_reject(st, self, sender, user, m)
      [] m.request = "mortgage_offer" -> on_mortgage_offer(st, self, sender, user, m)
      [] m.request = "mortgage_accept_signed" -> on_mortgage_accept_signed(st, self, sender, user, m)
      [] m.request = "mortgage_accept_unsigned" -> on_mortgage_accept_unsigned(st, self, sender, user, m)
      [] m.request = "mortgage_reject" -> on_mortgage_reject(st, self, sender, user, m)
      [] m.request = "investment_offer" -> on_investment_offer(st, self, sender, user, m)
      [] m.request = "investment_accept" -> on_investment_accept(st, self, sender, user, m)
      [] m.request = "investment_reject" -> on_investment_reject(st, self, sender, user, m)

(***************************************************************************)
(* The Agreement Protocol (community.py, "SIGNED MESSAGES").  A signature  *)
(* request is kept by its initiator until the response or the timeout; its *)
(* state is PROPOSED, then COUNTERSIGNED, REJECTED or TIMED_OUT.           *)
(* signed_confirm messages travel on the wire, apart from the queue.       *)
(***************************************************************************)
\* DatabaseModel.__eq__ as the Agreement Protocol uses it: the two records are
\* equal field by field
ModelEq(a, b) == a = b

\* an agreement as a message carries it: the model with its type
Agreement(type, model) == [type |-> type, id |-> model.id, model |-> model]

\* db.get(agreement.type, agreement.id)
GetAgreement(st, agreement) ==
    IF agreement.type = "mortgage" THEN Get(st.mortgages, agreement.id)
    ELSE Get(st.investments, agreement.id)

\* a test that lets every proposal out
KnownOrNot(dir, user_key) == TRUE

\* user_key in self.api.user_candidate
Known(dir, user_key) == user_key \in DOMAIN dir

\* create_signed_confirm_request_message(candidate, agreement): the payload
create_signed_confirm_request_message(self, agreement, today) ==
    [benefactor |-> self, beneficiary |-> "", agreement |-> agreement, time |-> today]

\* a countersigner that does not look at its own copy
allow_signed_confirm_unseen(st, self, payload) ==
    [benefactor |-> payload.benefactor, beneficiary |-> self,
     agreement |-> payload.agreement, time |-> payload.time]

\* allow_signed_confirm(message): the payload of the countersigned message, or None
allow_signed_confirm(st, self, payload) ==
    IF ModelEq(payload.agreement.model, GetAgreement(st, payload.agreement))
    THEN [benefactor |-> payload.benefactor, beneficiary |-> self,
          agreement |-> payload.agreement, time |-> payload.time]
    ELSE None

\* a validation that takes any beneficiary
allow_any_beneficiary(st, self, request, response, modified) ==
    IF response = None THEN "False"
    ELSE IF ModelEq(request.agreement, response.agreement)
    THEN IF response.benefactor = self /\ modified THEN "True" ELSE "False"
    ELSE "False"

\* allow_signed_confirm_response(request, response, modified)
allow_signed_confirm_response(st, self, request, response, modified) ==
    IF response = None THEN "False"
    ELSE IF ModelEq(request.agreement, response.agreement)
    THEN LET agreement == response.agreement
             mortgage == IF agreement.type = "investment"
                         THEN Get(st.mortgages, agreement.model.mortgage_id)
                         ELSE agreement.model
         IN  IF mortgage = None THEN "AttributeError"
             ELSE IF ~Has(st.loan_requests, mortgage.request_id) THEN "AttributeError"
             ELSE IF ~Has(st.users, st.loan_requests[mortgage.request_id].user_key)
             THEN "AttributeError"
             ELSE IF /\ response.beneficiary = st.loan_requests[mortgage.request_id].user_key
                     /\ response.benefactor = self
                     /\ modified
             THEN "True"
             ELSE "False"
    ELSE "False"

\* received_signed_confirm that also marks the agreed mortgage
received_signed_confirm_marking(st, payload) ==
    [st EXCEPT !.mortgages =
        [id \in DOMAIN @ |-> IF id = payload.agreement.id
                             THEN [@[id] EXCEPT !.status = "NONE"] ELSE @[id]]]

\* received_signed_confirm(messages): prints the agreement
received_signed_confirm(st, payload) == st

\* a signature request as its initiator keeps it; copy records what the
\* counterparty's own copy of the agreement was when the proposal arrived
\* ("unseen", "equal", "differs", or "foreign" for a peer running other software)
NewRequest(initiator, candidate, payload) ==
    [initiator |-> initiator, candidate |-> candidate, payload |-> payload,
     state |-> "PROPOSED", copy |-> "unseen"]

\* a response that settles the request whatever its state
SettleAgain(state, verdict) == IF verdict = "True" THEN "COUNTERSIGNED" ELSE "REJECTED"

\* the state of a request after a response: a request that is no longer
\* PROPOSED is not kept, and its response is dropped
Settle(state, verdict) ==
    IF state # "PROPOSED" THEN state
    ELSE IF verdict = "True" THEN "COUNTERSIGNED" ELSE "REJECTED"

\* self.api.user_candidate[user_key]
Candidate(dir, user_key) == IF user_key \in DOMAIN dir THEN dir[user_key] ELSE "nowhere"

SignedConfirm(id, from, to, response, payload) ==
    [id |-> id, from |-> from, to |-> to, response |-> response, payload |-> payload]

\* The recipients of message m of p that start the signing: the bank of the
\* mortgage, on mortgage_accept_signed, when it knows the sender's endpoint
\* (publish_signed_confirm_message returns False otherwise).
Proposers(p, m, recipients) ==
    {r \in recipients : /\ m.request = "mortgage_accept_signed"
                        /\ r = m.models.mortgage.bank
                        /\ Known(directory[r], p)}

\* the counterparty takes a proposal off the wire: it countersigns or drops it
ReceiveSignatureRequest(c) ==
    /\ \E msg \in wire :
          /\ ~msg.response
          /\ msg.to = c
          /\ LET answer == allow_signed_confirm(db[c], c, msg.payload) IN
               /\ wire' = (wire \ {msg}) \cup
                             (IF answer = None THEN {}
                              ELSE {SignedConfirm(msg.id, c, msg.from, TRUE, answer)})
               /\ requests' = [requests EXCEPT
                                 ![msg.id].copy =
                                     IF msg.payload.agreement.model
                                          = GetAgreement(db[c], msg.payload.agreement)
                                     THEN "equal" ELSE "differs"]
               /\ last' = [p |-> c, op |-> "allow_signed_confirm", actor |-> c,
                           target |-> msg.id,
                           res |-> IF answer = None THEN "None" ELSE "ok",
                           out |-> <<>>]
    /\ UNCHANGED <<db, held, queue, ids, now, directory>>

\* what a peer that runs other software may put in a response
Altered(agreement) == [agreement EXCEPT !.model.amount = @ + 1]

\* the answers of such a peer e to a proposal: one naming the borrower as
\* beneficiary, and one each with its own id as beneficiary, with its own id
\* as benefactor, and with an altered agreement
ForeignAnswers(e, payload) ==
    LET named == [payload EXCEPT !.beneficiary = "b1"]
    IN  {named,
         [named EXCEPT !.beneficiary = e],
         [named EXCEPT !.benefactor = e],
         [named EXCEPT !.agreement = Altered(payload.agreement)]}

\* a peer e that runs other software answers a proposal as it likes
ForeignResponse(e) ==
    /\ \E msg \in wire :
          /\ ~msg.response
          /\ msg.to = e
          /\ \E answer \in ForeignAnswers(e, msg.payload) :
               /\ wire' = (wire \ {msg}) \cup
                            {SignedConfirm(msg.id, e, msg.from, TRUE, answer)}
               /\ requests' = [requests EXCEPT ![msg.id].copy = "foreign"]
               /\ last' = [p |-> e, op |-> "foreign_response", actor |-> e,
                           target |-> msg.id, res |-> "ok", out |-> <<>>]
    /\ UNCHANGED <<db, held, queue, ids, now, directory>>

\* the initiator takes a response off the wire: while the request is kept the
\* response is validated and, when valid, handed to received_signed_confirm
\* (which prints it); a response to a request no longer kept is dropped
ReceiveSignatureResponse(i) ==
    /\ \E msg \in wire :
          /\ msg.response
          /\ msg.to = i
          /\ wire' = wire \ {msg}
          /\ LET request == requests[msg.id]
                 verdict == allow_signed_confirm_response(db[i], i, request.payload,
                                msg.payload, msg.payload # request.payload)
                 state == Settle(request.state, verdict)
             IN  /\ requests' = [requests EXCEPT ![msg.id].state = state]
                 /\ db' = [db EXCEPT ![i] =
                              IF request.state # state /\ state = "COUNTERSIGNED"
                              THEN received_signed_confirm(@, msg.payload) ELSE @]
                 /\ last' = [p |-> i,
                             op |-> IF request.state = "PROPOSED"
                                    THEN "allow_signed_confirm_response"
                                    ELSE "late_response",
                             actor |-> i, target |-> msg.id,
                             res |-> IF request.state = "PROPOSED" THEN verdict
                                     ELSE "None",
                             out |-> <<>>]
    /\ UNCHANGED <<held, queue, ids, now, directory>>

\* the timeout of a request fires: allow_signed_confirm_response is called
\* without a response
Timeout(i) ==
    /\ \E h \in DOMAIN requests :
          /\ requests[h].initiator = i
          /\ requests[h].state = "PROPOSED"
          /\ allow_signed_confirm_response(db[i], i, requests[h].payload, None, FALSE)
                = "False"
          /\ requests' = [requests EXCEPT ![h].state = "TIMED_OUT"]
          /\ last' = [p |-> i, op |-> "timeout", actor |-> i, target |-> h,
                      res |-> "False", out |-> <<>>]
    /\ UNCHANGED <<db, held, queue, ids, now, directory, wire>>

(***************************************************************************)
(* on_user_introduction: the Directory and the replication of User records *)
(***************************************************************************)
\* not obj == self.user: the subject is the local user
IsLocalUser(id, self) == id = self

\* an introduction that adds the received mortgage ids to a stored record
on_user_introduction_merging(st, dir, self, candidate, id, obj) ==
    IF IsLocalUser(id, self) THEN [st |-> st, dir |-> dir]
    ELSE [st |-> IF Has(st.users, id)
                 THEN [st EXCEPT !.users[id].mortgage_ids = @ \o obj.mortgage_ids]
                 ELSE [st EXCEPT !.users = Post(@, id, obj)],
          dir |-> (id :> candidate) @@ dir]

\* on_user_introduction(messages), for one User obj with the given id received
\* from the endpoint candidate: the receiver's database and directory afterwards
on_user_introduction(st, dir, self, candidate, id, obj) ==
    IF IsLocalUser(id, self) THEN [st |-> st, dir |-> dir]
    ELSE [st |-> IF RoleOf(id) = "FINANCIAL_INSTITUTION"
                 THEN [st EXCEPT !.users = Put(@, id, obj)]
                 ELSE IF Has(st.users, id) THEN st
                 ELSE [st EXCEPT !.users = Post(@, id, obj)],
          dir |-> (id :> candidate) @@ dir]

\* the User records an introduction may carry
UserRecords == {NewUser, [NewUser EXCEPT !.mortgage_ids = <<1>>]}

\* participant r receives from endpoint s an introduce_user message with the
\* User obj of the given id
IntroduceUser(r, s, id, obj) ==
    /\ LET after == on_user_introduction(db[r], directory[r], r, s, id, obj) IN
         /\ db' = [db EXCEPT ![r] = after.st]
         /\ directory' = [directory EXCEPT ![r] = after.dir]
    /\ last' = [p |-> r, op |-> "introduce_user", actor |-> id, target |-> 0,
                res |-> "ok", out |-> <<s, obj>>]
    /\ UNCHANGED <<held, queue, ids, now, requests, wire>>

\* The participants a message of p reaches: its receivers, or the whole
\* community when it names none.
Recipients(p, m) ==
    IF m.receivers = {} THEN DOMAIN db \ {p} ELSE (m.receivers \cap DOMAIN db) \ {p}

\* The transport takes the oldest message off p's queue and delivers it: each
\* recipient's handler runs to completion on the recipient's database.
SendMessage(p) ==
    /\ queue[p] # <<>>
    /\ LET m == Head(queue[p])
           proposers == Proposers(p, m, Recipients(p, m))
       IN  /\ db' = [r \in DOMAIN db |->
                       IF r \in Recipients(p, m)
                       THEN Dispatch(db[r], r, p, db[p].users[p], m)
                       ELSE db[r]]
           /\ IF proposers = {}
              THEN UNCHANGED <<requests, wire>>
              ELSE LET r == CHOOSE r \in proposers : TRUE
                       payload == create_signed_confirm_request_message(
                                      r, Agreement("mortgage", m.models.mortgage), now)
                       candidate == Candidate(directory[r], p)
                   IN  /\ requests' = Append(requests,
                                             NewRequest(r, candidate, payload))
                       /\ wire' = wire \cup
                                    {SignedConfirm(Len(requests) + 1, r, candidate,
                                                   FALSE, payload)}
    /\ queue' = [queue EXCEPT ![p] = Tail(@)]
    /\ last' = [NoCall EXCEPT !.p = p, !.op = "send", !.res = "ok"]
    /\ UNCHANGED <<held, ids, now, directory>>

(***************************************************************************)
(* The single-database system: one MarketAPI whose database holds every    *)
(* user (the setting of the API's own operations), each operation called   *)
(* by a user of the role the operation is meant for.                       *)
(***************************************************************************)
Init ==
    /\ db = [p \in {Hub} |-> [EmptyDb EXCEPT !.users = [u \in Users |-> NewUser]]]
    /\ held = [u \in {} |-> NewUser]
    /\ queue = [p \in {Hub} |-> <<>>]
    /\ ids = [loan_requests |-> 0, mortgages |-> 0, investments |-> 0, campaigns |-> 0]
    /\ now = 0
    /\ directory = [p \in {Hub} |-> [u \in Users |-> u]]
    /\ requests = <<>>
    /\ wire = {}
    /\ last = NoCall

Next ==
    \/ \E u \in Borrowers : CreateLoanRequest(Hub, u)
    \/ \E u \in Banks : AcceptLoanRequest(Hub, u)
    \/ \E u \in Banks : RejectLoanRequest(Hub, u)
    \/ \E u \in Borrowers : AcceptMortgageOffer(Hub, u)
    \/ \E u \in Borrowers : RejectMortgageOffer(Hub, u)
    \/ \E u \in Investors : PlaceLoanOffer(Hub, u)
    \/ \E u \in Borrowers : AcceptInvestmentOffer(Hub, u)
    \/ \E u \in Borrowers : RejectInvestmentOffer(Hub, u)
    \/ SendMessage(Hub)

Spec == Init /\ [][Next]_vars

(***************************************************************************)
(* The same system with every user calling the operations that check the   *)
(* actor's role (or are meant to): the loan-request operations and         *)
(* place_loan_offer.                                                       *)
(***************************************************************************)
RoleNext ==
    \/ \E u \in Users : CreateLoanRequest(Hub, u)
    \/ \E u \in Users : AcceptLoanRequest(Hub, u)
    \/ \E u \in Users : RejectLoanRequest(Hub, u)
    \/ \E u \in Users : PlaceLoanOffer(Hub, u)
    \/ SendMessage(Hub)

RoleSpec == Init /\ [][RoleNext]_vars

(***************************************************************************)
(* The market over time: requests, mortgages that finance a part or the    *)
(* whole of the price, campaigns and investments, with the clock moving    *)
(* and the read operations called in between.                              *)
(***************************************************************************)
\* the amounts a bank offers in the market over time
FullAmounts == {1, HousePrice}

MarketNext ==
    \/ \E u \in Borrowers : CreateLoanRequest(Hub, u)
    \/ AcceptLoanRequestFor(Hub, "x", FullAmounts)
    \/ \E u \in Borrowers : AcceptMortgageOffer(Hub, u)
    \/ \E u \in Investors : PlaceLoanOffer(Hub, u)
    \/ \E u \in Borrowers : AcceptInvestmentOffer(Hub, u)
    \/ SendMessage(Hub)
    \/ Tick
    \/ LoadOpenMarket(Hub)
    \/ \E u \in Borrowers : LoadBorrowersLoans(Hub, u)
    \/ \E u \in Borrowers : LoadBorrowersOffers(Hub, u)
    \/ LoadBids(Hub)
    \/ \E u \in Banks : LoadAllLoanRequests(Hub, u)

MarketSpec == Init /\ [][MarketNext]_vars

(***************************************************************************)
(* The network: the borrower and the two banks each run their own          *)
(* MarketAPI with their own database and queue, and act as themselves.     *)
(* Every participant has been introduced to every user.                    *)
(***************************************************************************)
NetParticipants == Borrowers \cup Banks

NetInit ==
    /\ db = [p \in NetParticipants |->
                [EmptyDb EXCEPT !.users = [u \in Users |-> NewUser]]]
    /\ held = [u \in {} |-> NewUser]
    /\ queue = [p \in NetParticipants |-> <<>>]
    /\ ids = [loan_requests |-> 0, mortgages |-> 0, investments |-> 0, campaigns |-> 0]
    /\ now = 0
    /\ directory = [p \in NetParticipants |-> [u \in Users |-> u]]
    /\ requests = <<>>
    /\ wire = {}
    /\ last = NoCall

NetNext ==
    \/ \E u \in Borrowers : CreateLoanRequest(u, u)
    \/ \E u \in Banks : AcceptLoanRequest(u, u)
    \/ \E u \in Banks : RejectLoanRequest(u, u)
    \/ \E u \in Borrowers : AcceptMortgageOffer(u, u)
    \/ \E u \in Borrowers : RejectMortgageOffer(u, u)
    \/ \E p \in NetParticipants : SendMessage(p)

NetSpec == NetInit /\ [][NetNext]_vars

(***************************************************************************)
(* The network with applications that keep their User object: each         *)
(* participant's application loaded its user at start and hands that       *)
(* object to every API call, while the inbound handlers work on the        *)
(* stored record.                                                          *)
(***************************************************************************)
HeldInit ==
    /\ db = [p \in NetParticipants |->
                [EmptyDb EXCEPT !.users = [u \in Users |-> NewUser]]]
    /\ held = [u \in NetParticipants |-> NewUser]
    /\ queue = [p \in NetParticipants |-> <<>>]
    /\ ids = [loan_requests |-> 0, mortgages |-> 0, investments |-> 0, campaigns |-> 0]
    /\ now = 0
    /\ directory = [p \in NetParticipants |-> [u \in Users |-> u]]
    /\ requests = <<>>
    /\ wire = {}
    /\ last = NoCall

HeldSpec == HeldInit /\ [][NetNext]_vars

(***************************************************************************)
(* The signing of an accepted mortgage: the borrower and the banks each    *)
(* run their own MarketAPI; the endpoint of i1 runs other software.  Bank  *)
(* x learns the borrower's endpoint from introduce_user messages, which    *)
(* the borrower, bank y or the other peer sends.                           *)
(***************************************************************************)
SignParticipants == {"b1", "x", "y"}

Foreign == "i1"

NoEndpoints == [u \in {} |-> ""]

\* a call on database st with the id generators at n, nothing held or queued
Fresh(st, n) ==
    [st |-> st, h |-> [u \in {} |-> NewUser], q |-> <<>>, n |-> n, now |-> 0,
     res |-> "none", out |-> <<>>]

\* The borrower has created a loan request for bank x and bank x has offered
\* a mortgage; both messages have been delivered.
Requested ==
    create_loan_request(
        Fresh([EmptyDb EXCEPT !.users = [u \in Users |-> NewUser]],
              [loan_requests |-> 0, mortgages |-> 0, investments |-> 0,
               campaigns |-> 0]),
        "b1", <<"x">>, HousePrice)

Offered ==
    accept_loan_request(
        Fresh(Dispatch([EmptyDb EXCEPT !.users = [u \in Users |-> NewUser]],
                       "x", "b1", Requested.st.users["b1"], Requested.q[1]),
              Requested.n),
        "x", 1, "b1", 1)

SignInit ==
    /\ db = [p \in SignParticipants |->
                IF p = "x" THEN Offered.st
                ELSE IF p = "b1"
                THEN Dispatch(Requested.st, "b1", "x", Offered.st.users["x"],
                              Offered.q[1])
                ELSE [EmptyDb EXCEPT !.users = [u \in Users |-> NewUser]]]
    /\ held = [u \in {} |-> NewUser]
    /\ queue = [p \in SignParticipants |-> <<>>]
    /\ ids = Offered.n
    /\ now = 0
    /\ directory = [p \in SignParticipants |-> NoEndpoints]
    /\ requests = <<>>
    /\ wire = {}
    /\ last = NoCall

SignNext ==
    \/ AcceptMortgageOffer("b1", "b1")
    \/ RejectMortgageOffer("b1", "b1")
    \/ \E p \in SignParticipants : SendMessage(p)
    \/ \E s \in {"b1", "y", Foreign} : IntroduceUser("x", s, "b1", NewUser)
    \/ \E c \in {"b1", "y"} : ReceiveSignatureRequest(c)
    \/ ForeignResponse(Foreign)
    \/ ReceiveSignatureResponse("x")
    \/ Timeout("x")

SignSpec == SignInit /\ [][SignNext]_vars

\* the timeout of a request that is kept fires in the end
SignLive == SignSpec /\ WF_vars(Timeout("x"))

(***************************************************************************)
(* The Directory of one participant, bank x, which starts with its own     *)
(* User record, with or without the record of bank y (stored on an earlier *)
(* message of y), and receives introductions of every user from every      *)
(* other endpoint.                                                         *)
(***************************************************************************)
IntroInit ==
    /\ \E known \in SUBSET {"y"} :
          db = [p \in {"x"} |->
                   [EmptyDb EXCEPT !.users = [u \in {"x"} \cup known |-> NewUser]]]
    /\ held = [u \in {} |-> NewUser]
    /\ queue = [p \in {"x"} |-> <<>>]
    /\ ids = [loan_requests |-> 0, mortgages |-> 0, investments |-> 0, campaigns |-> 0]
    /\ now = 0
    /\ directory = [p \in {"x"} |-> NoEndpoints]
    /\ requests = <<>>
    /\ wire = {}
    /\ last = NoCall

IntroNext ==
    \E s \in Users \ {"x"}, id \in Users, obj \in UserRecords :
        IntroduceUser("x", s, id, obj)

IntroSpec == IntroInit /\ [][IntroNext]_vars

(***************************************************************************)
(* on_model_request and on_model_request_response: the pull of an entity   *)
(* by (type, id).  Bank x, which starts as in the Directory system, is     *)
(* asked for User records and houses and receives them from every other    *)
(* endpoint.                                                               *)
(***************************************************************************)
\* Database.post(type, obj): stores obj under its id and returns the id; the
\* post of an id that is already stored fails and stores nothing
db_post(table, id, obj) ==
    IF Has(table, id) THEN [table |-> table, id |-> None]
    ELSE [table |-> Post(table, id, obj), id |-> id]

\* on_model_request(messages), for one (model_type, model_id): the exception
\* the handler ends with.  obj.id fails when nothing is stored under the id,
\* and send_model_request_response is called without its candidates argument.
on_model_request(st, model_type, model_id) ==
    LET obj == Get(st[model_type], model_id)
    IN  IF obj = None THEN "AttributeError" ELSE "TypeError"

\* a response handler that stores the carried obj over a stored one
on_model_request_response_overwriting(st, type, id, obj) ==
    [st EXCEPT ![type] = PostOrPut(@, id, obj)]

\* on_model_request_response(messages), for one carried obj of the given type
\* and id
on_model_request_response(st, type, id, obj) ==
    [st EXCEPT ![type] = db_post(@, id, obj).table]

\* the entities a model_request or its response may name: User records and houses
Carried ==
    [type : {"users"}, id : Users, obj : UserRecords]
        \cup {[type |-> "houses", id |-> i, obj |-> [id |-> i, price |-> a]] :
                 i \in 1..MaxLoanRequests, a \in Amounts}

\* participant r receives from endpoint s a model_request for (type, id)
ModelRequest(r, s, type, id) ==
    /\ last' = [p |-> r, op |-> "model_request", actor |-> s, target |-> 0,
                res |-> on_model_request(db[r], type, id), out |-> <<type, id>>]
    /\ UNCHANGED <<db, held, queue, ids, now, directory, requests, wire>>

\* participant r receives from endpoint s a model_request_response with one entity
ModelRequestResponse(r, s, e) ==
    /\ db' = [db EXCEPT ![r] = on_model_request_response(@, e.type, e.id, e.obj)]
    /\ last' = [p |-> r, op |-> "model_request_response", actor |-> s, target |-> 0,
                res |-> "ok", out |-> <<e.type, e.id, e.obj>>]
    /\ UNCHANGED <<held, queue, ids, now, directory, requests, wire>>

SyncNext ==
    \/ \E s \in Users \ {"x"}, e \in Carried : ModelRequest("x", s, e.type, e.id)
    \/ \E s \in Users \ {"x"}, e \in Carried : ModelRequestResponse("x", s, e)

SyncSpec == IntroInit /\ [][SyncNext]_vars

(***************************************************************************)
(* What the claims speak of.                                               *)
(***************************************************************************)
Participants == DOMAIN db

\* the stored Mortgages of participant p whose request id is r
MortgagesOf(p, r) == {m \in DOMAIN db[p].mortgages : db[p].mortgages[m].request_id = r}

\* the stored Investments of participant p on mortgage m that are ACCEPTED
AcceptedOn(p, m) ==
    {i \in DOMAIN db[p].investments :
        /\ db[p].investments[i].mortgage_id = m
        /\ db[p].investments[i].status = "ACCEPTED"}

RECURSIVE SumAmounts(_, _)
SumAmounts(p, is) ==
    IF is = {} THEN 0
    ELSE LET i == CHOOSE j \in is : TRUE
         IN  db[p].investments[i].amount + SumAmounts(p, is \ {i})

\* a LoanRequest is open: some bank's entry is PENDING or ACCEPTED
Open(loan_request) ==
    \E b \in DOMAIN loan_request.status :
        loan_request.status[b] \in {"PENDING", "ACCEPTED"}

OpenRequestsOf(p, u) ==
    {r \in DOMAIN db[p].loan_requests :
        /\ db[p].loan_requests[r].user_key = u
        /\ Open(db[p].loan_requests[r])}

\* the step just taken is a call of one of these API methods by participant p
Called(p, ops) == last'.p = p /\ last'.op \in ops

\* the call left participant p's database and queue as they were
Untouched(p) == db'[p] = db[p] /\ queue'[p] = queue[p]

\* C1: in every reachable state the remaining amount of every Campaign is
\* >= 0, i.e. the amounts of the ACCEPTED Investments on the Campaign's
\* mortgage sum to at most the Campaign's funding goal.
C1_RemainingNeverNegative ==
    \A p \in Participants : \A c \in DOMAIN db[p].campaigns :
        /\ db[p].campaigns[c].amount >= 0
        /\ SumAmounts(p, AcceptedOn(p, db[p].campaigns[c].mortgage_id))
              <= db[p].campaigns[c].goal

\* C2: in every reachable state, for every LoanRequest at most one Mortgage
\* whose request id is that LoanRequest has status ACCEPTED.
C2_OneAcceptedMortgagePerRequest ==
    \A p \in Participants : \A r \in 1..MaxLoanRequests :
        Cardinality({m \in MortgagesOf(p, r) :
                        db[p].mortgages[m].status = "ACCEPTED"}) <= 1

\* C3: immediately after a successful acceptMortgageOffer(borrower, m), m has
\* status ACCEPTED and every other stored Mortgage with m's request id has
\* status REJECTED.
C3_SiblingsRejectedOnAccept ==
    \A p \in Participants :
        (/\ last.op = "accept_mortgage_offer"
         /\ last.res = "ok"
         /\ Has(db[p].mortgages, last.target))
        => LET m == db[p].mortgages[last.target] IN
           /\ m.status = "ACCEPTED"
           /\ \A o \in MortgagesOf(p, m.request_id) \ {last.target} :
                 db[p].mortgages[o].status = "REJECTED"

\* C4: in every reachable state each borrower has at most one open
\* LoanRequest (one with a per-bank entry that is PENDING or ACCEPTED).
C4_OneOpenRequestPerBorrower ==
    \A p \in Participants : \A u \in Borrowers :
        Cardinality(OpenRequestsOf(p, u)) <= 1

\* a status going back: ACCEPTED to PENDING, or PENDING to NONE
Regress(old, new) ==
    \/ old = "ACCEPTED" /\ new = "PENDING"
    \/ old = "PENDING" /\ new = "NONE"

\* C5: in no participant's database does the status of a Mortgage, of an
\* Investment or of a per-bank entry of a LoanRequest ever change from
\* ACCEPTED to PENDING or from PENDING to NONE, by a local operation or by the
\* delivery of a message.
C5_Step ==
    \A p \in Participants :
        /\ \A m \in DOMAIN db[p].mortgages \cap DOMAIN db'[p].mortgages :
              ~Regress(db[p].mortgages[m].status, db'[p].mortgages[m].status)
        /\ \A i \in DOMAIN db[p].investments \cap DOMAIN db'[p].investments :
              ~Regress(db[p].investments[i].status, db'[p].investments[i].status)
        /\ \A r \in DOMAIN db[p].loan_requests \cap DOMAIN db'[p].loan_requests :
              \A b \in DOMAIN db[p].loan_requests[r].status
                        \cap DOMAIN db'[p].loan_requests[r].status :
                  ~Regress(db[p].loan_requests[r].status[b],
                           db'[p].loan_requests[r].status[b])

C5_StatusNeverGoesBack == [][C5_Step]_vars

\* C6: acceptMortgageOffer and rejectMortgageOffer invoked on a Mortgage that
\* is already ACCEPTED or REJECTED fail and leave every entity and the
\* outbound queue unchanged.
C6_Step ==
    \A p \in Participants :
        (/\ Called(p, {"accept_mortgage_offer", "reject_mortgage_offer"})
         /\ Has(db[p].mortgages, last'.target)
         /\ db[p].mortgages[last'.target].status \in {"ACCEPTED", "REJECTED"})
        => (last'.res # "ok" /\ Untouched(p))

C6_MortgageOfferOnlyWhenPending == [][C6_Step]_vars

\* C7: acceptInvestmentOffer and rejectInvestmentOffer invoked on an
\* Investment that is already ACCEPTED or REJECTED leave the investment's
\* status, every Campaign's remaining amount and the outbound queue unchanged.
C7_Step ==
    \A p \in Participants :
        (/\ Called(p, {"accept_investment_offer", "reject_investment_offer"})
         /\ Has(db[p].investments, last'.target)
         /\ db[p].investments[last'.target].status \in {"ACCEPTED", "REJECTED"})
        => /\ db'[p].investments[last'.target].status
                 = db[p].investments[last'.target].status
           /\ db'[p].campaigns = db[p].campaigns
           /\ queue'[p] = queue[p]

C7_InvestmentOfferOnlyWhenPending == [][C7_Step]_vars

\* C8: placeLoanOffer on a mortgage that is missing, PENDING or REJECTED
\* creates no Investment and changes no User and no Mortgage record.
C8_Step ==
    \A p \in Participants :
        (/\ Called(p, {"place_loan_offer"})
         /\ ~(/\ Has(db[p].mortgages, last'.target)
              /\ db[p].mortgages[last'.target].status = "ACCEPTED"))
        => /\ db'[p].investments = db[p].investments
           /\ db'[p].users = db[p].users
           /\ db'[p].mortgages = db[p].mortgages

C8_OfferOnlyOnAcceptedMortgage == [][C8_Step]_vars

\* the mutating operations of the Lifecycle Engine
EngineOps ==
    {"create_loan_request", "accept_loan_request", "reject_loan_request",
     "accept_mortgage_offer", "reject_mortgage_offer", "place_loan_offer",
     "accept_investment_offer", "reject_investment_offer"}

\* C9: every mutating operation is all-or-nothing: a call that fails leaves
\* the database and the queue as they were, and a call that succeeds has
\* enqueued its message.
C9_Step ==
    \A p \in Participants :
        Called(p, EngineOps)
        => /\ last'.res # "ok" => Untouched(p)
           /\ last'.res = "ok" => Len(queue'[p]) > Len(queue[p])

C9_AllOrNothing == [][C9_Step]_vars

\* C10: createLoanRequest by a non-BORROWER, acceptLoanRequest or
\* rejectLoanRequest by a non-FINANCIAL_INSTITUTION and placeLoanOffer by a
\* non-INVESTOR leave the database and the queue exactly as they were.
WrongRole(op, actor) ==
    \/ op = "create_loan_request" /\ RoleOf(actor) # "BORROWER"
    \/ op \in {"accept_loan_request", "reject_loan_request"}
          /\ RoleOf(actor) # "FINANCIAL_INSTITUTION"
    \/ op = "place_loan_offer" /\ RoleOf(actor) # "INVESTOR"

C10_Step ==
    \A p \in Participants :
        (Called(p, EngineOps) /\ WrongRole(last'.op, last'.actor)) => Untouched(p)

C10_WrongRoleRejected == [][C10_Step]_vars

\* the set of the elements of a list
Range(s) == {s[i] : i \in 1..Len(s)}

\* C11: after a successful createLoanRequest listing banks B the new
\* LoanRequest's status map has exactly the banks of B as keys, each PENDING,
\* and the request id is in the borrower's loan-request list and in the
\* loan-request list of every bank of B.
C11_NewRequestPendingAtEveryBank ==
    \A p \in Participants :
        (last.p = p /\ last.op = "create_loan_request" /\ last.res = "ok")
        => /\ Has(db[p].loan_requests, last.target)
           /\ LET loan_request == db[p].loan_requests[last.target]
                  B == Range(loan_request.banks)
              IN  /\ DOMAIN loan_request.status = B
                  /\ \A b \in B : loan_request.status[b] = "PENDING"
                  /\ InSeq(db[p].users[last.actor].loan_request_ids, last.target)
                  /\ \A b \in B : InSeq(db[p].users[b].loan_request_ids, last.target)

\* C11 witness: a request listing two banks has just been created
C11_Witness ==
    /\ last.op = "create_loan_request"
    /\ last.res = "ok"
    /\ Has(db[last.p].loan_requests, last.target)
    /\ Cardinality(Range(db[last.p].loan_requests[last.target].banks)) = 2

\* C12: acceptLoanRequest by bank X sets X's entry of the request's status map
\* to ACCEPTED and leaves every other bank's entry as it was, and creates
\* exactly one new Mortgage, PENDING, of that request, whose id is appended to
\* X's and to the borrower's mortgage lists.
C12_Step ==
    \A p \in Participants :
        (Called(p, {"accept_loan_request"}) /\ last'.res = "ok")
        => LET r == last'.target
               X == last'.actor
               before == db[p].loan_requests[r]
               after == db'[p].loan_requests[r]
               new == DOMAIN db'[p].mortgages \ DOMAIN db[p].mortgages
           IN  /\ after.status[X] = "ACCEPTED"
               /\ DOMAIN after.status = DOMAIN before.status \cup {X}
               /\ \A b \in DOMAIN before.status \ {X} :
                     after.status[b] = before.status[b]
               /\ Cardinality(new) = 1
               /\ \A m \in new :
                     /\ db'[p].mortgages[m].status = "PENDING"
                     /\ db'[p].mortgages[m].request_id = r
                     /\ db'[p].mortgages[m].bank = X
                     /\ db'[p].users[X].mortgage_ids
                           = Append(db[p].users[X].mortgage_ids, m)
                     /\ db'[p].users[before.user_key].mortgage_ids
                           = Append(db[p].users[before.user_key].mortgage_ids, m)

C12_AcceptSetsOwnEntryOnly == [][C12_Step]_vars

\* C13: rejectLoanRequest by an invited bank removes the request id from the borrower's
\* loan-request list if and only if, after the rejection, every bank's entry
\* of the request's status map is REJECTED; a further rejectLoanRequest on a
\* request already fully rejected does not fail and removes no other id.
C13_Step ==
    \A p \in Participants :
        (/\ Called(p, {"reject_loan_request"})
         /\ Has(db[p].loan_requests, last'.target)
         /\ last'.actor \in Range(db[p].loan_requests[last'.target].banks))
        => LET r == last'.target
               before == db[p].loan_requests[r]
               status == SetStatus(before.status, last'.actor, "REJECTED")
               list == db[p].users[before.user_key].loan_request_ids
           IN  /\ last'.res = "ok"
               /\ db'[p].users[before.user_key].loan_request_ids
                     = IF AllRejected(status) THEN Remove(list, r) ELSE list

C13_MarkerClearedOnce == [][C13_Step]_vars

\* C14: once every invited bank of a LoanRequest has responded (by
\* acceptLoanRequest or rejectLoanRequest) the request's status map holds no
\* PENDING entry, and no later operation puts one back: a bank's successful
\* response leaves its entry other than PENDING, and no step turns an entry
\* that is not PENDING into PENDING or adds a PENDING entry.
C14_Step ==
    \A p \in Participants :
        /\ (/\ Called(p, {"accept_loan_request", "reject_loan_request"})
            /\ last'.res = "ok"
            /\ last'.actor \in Range(db[p].loan_requests[last'.target].banks))
           => db'[p].loan_requests[last'.target].status[last'.actor] # "PENDING"
        /\ \A r \in DOMAIN db[p].loan_requests :
              /\ r \in DOMAIN db'[p].loan_requests
              /\ \A b \in DOMAIN db'[p].loan_requests[r].status :
                    db'[p].loan_requests[r].status[b] = "PENDING"
                    => /\ b \in DOMAIN db[p].loan_requests[r].status
                       /\ db[p].loan_requests[r].status[b] = "PENDING"

C14_NoPendingAfterResponse == [][C14_Step]_vars

\* C15: a successful acceptMortgageOffer on Mortgage m creates a Campaign of
\* m whose goal is the price of m's house minus m's amount, whose remaining
\* amount is that goal and whose completed flag is false, and sets m's
\* campaign id to it; no step changes the goal of a stored Campaign.
C15_Step ==
    \A p \in Participants :
        /\ (Called(p, {"accept_mortgage_offer"}) /\ last'.res = "ok")
           => LET m == db[p].mortgages[last'.target]
                  new == DOMAIN db'[p].campaigns \ DOMAIN db[p].campaigns
              IN  /\ Cardinality(new) = 1
                  /\ \A c \in new :
                        /\ db'[p].campaigns[c].mortgage_id = last'.target
                        /\ db'[p].campaigns[c].goal
                              = db[p].houses[m.house_id].price - m.amount
                        /\ db'[p].campaigns[c].amount = db'[p].campaigns[c].goal
                        /\ db'[p].campaigns[c].completed = FALSE
                        /\ db'[p].mortgages[last'.target].campaign_id = c
        /\ \A c \in DOMAIN db[p].campaigns :
              /\ c \in DOMAIN db'[p].campaigns
              /\ db'[p].campaigns[c].goal = db[p].campaigns[c].goal

C15_CampaignOfAcceptedMortgage == [][C15_Step]_vars

\* C15 witness: a mortgage offer has just been accepted and an investment on
\* its campaign has been accepted since the campaign was created
C15_Witness ==
    /\ last.op = "accept_mortgage_offer"
    /\ last.res = "ok"
    /\ \E c \in DOMAIN db[last.p].campaigns :
          db[last.p].campaigns[c].amount < db[last.p].campaigns[c].goal

\* C16: on every step a Campaign's remaining amount never increases, and it
\* changes only when acceptInvestmentOffer succeeds on an Investment of that
\* Campaign's mortgage, which is ACCEPTED afterwards; every other operation and
\* every inbound handler leaves it unchanged.
C16_Step ==
    \A p \in Participants :
        \A c \in DOMAIN db[p].campaigns \cap DOMAIN db'[p].campaigns :
            /\ db'[p].campaigns[c].amount <= db[p].campaigns[c].amount
            /\ db'[p].campaigns[c].amount # db[p].campaigns[c].amount
               => /\ Called(p, {"accept_investment_offer"})
                  /\ last'.res = "ok"
                  /\ db'[p].investments[last'.target].status = "ACCEPTED"
                  /\ db[p].investments[last'.target].mortgage_id
                        = db[p].campaigns[c].mortgage_id

C16_RemainingChangedByOwnInvestmentsOnly == [][C16_Step]_vars

\* C17: acceptInvestmentOffer succeeds only if one of the borrower's stored
\* Campaigns has the investment's mortgage id, and then it changes the
\* remaining amount of that Campaign alone; otherwise it fails and leaves
\* every Campaign and every Investment as it was.
C17_Step ==
    \A p \in Participants :
        Called(p, {"accept_investment_offer"})
        => LET matching ==
                 IF Has(db[p].investments, last'.target) /\ Has(db[p].users, last'.actor)
                 THEN {c \in Range(db[p].users[last'.actor].campaign_ids)
                          \cap DOMAIN db[p].campaigns :
                         db[p].campaigns[c].mortgage_id
                             = db[p].investments[last'.target].mortgage_id}
                 ELSE {}
           IN  IF matching = {}
               THEN /\ last'.res # "ok"
                    /\ db'[p].campaigns = db[p].campaigns
                    /\ db'[p].investments = db[p].investments
               ELSE last'.res = "ok"
                    => \A c \in DOMAIN db[p].campaigns \ matching :
                          db'[p].campaigns[c] = db[p].campaigns[c]

C17_OnlyTheInvestmentsCampaign == [][C17_Step]_vars

\* C18: in every reachable state a Campaign is completed exactly when its
\* remaining amount is zero or less.
C18_CompletedIffNothingRemains ==
    \A p \in Participants :
        \A c \in DOMAIN db[p].campaigns :
            db[p].campaigns[c].completed <=> (db[p].campaigns[c].amount <= 0)

\* the read operations
LoadOps ==
    {"load_open_market", "load_borrowers_loans", "load_borrowers_offers", "load_bids",
     "load_all_loan_requests"}

\* the stored Campaigns of participant p that are active: not completed and
\* the current time before the end date
ActiveCampaigns(p) ==
    {c \in DOMAIN db[p].campaigns :
        ~db[p].campaigns[c].completed /\ now < db[p].campaigns[c].end_date}

C20_Step ==
    \A p \in Participants :
        Called(p, LoadOps) => /\ db' = db
                              /\ queue' = queue
                              /\ held' = held
                              /\ ids' = ids

C20_LoadsChangeNothing == [][C20_Step]_vars

\* C20 witness: a read operation has returned a list that is not empty while a
\* message is waiting in the queue and a stored campaign is past its end date
C20_Witness ==
    /\ last.op \in LoadOps
    /\ last.res = "ok"
    /\ last.out # <<>>
    /\ queue[last.p] # <<>>
    /\ \E c \in DOMAIN db[last.p].campaigns : db[last.p].campaigns[c].end_date <= now

\* the messages a step has appended to participant p's queue, as kind and receivers
Enqueued(p) ==
    [i \in 1..(Len(queue'[p]) - Len(queue[p])) |->
        <<queue'[p][Len(queue[p]) + i].request, queue'[p][Len(queue[p]) + i].receivers>>]

\* the messages assigned to the operation that has just succeeded at p
Assigned(p) ==
    LET op == last'.op
        target == last'.target
    IN  IF op = "create_loan_request"
        THEN <<<<"loan_request", Range(db'[p].loan_requests[target].banks)>>>>
        ELSE IF op = "accept_loan_request"
        THEN <<<<"mortgage_offer", {db[p].loan_requests[target].user_key}>>>>
        ELSE IF op = "reject_loan_request"
        THEN <<<<"loan_request_reject", {db[p].loan_requests[target].user_key}>>>>
        ELSE IF op = "accept_mortgage_offer"
        THEN << <<"mortgage_accept_signed", {db[p].mortgages[target].bank}>>,
                <<"mortgage_accept_unsigned", {}>> >>
        ELSE IF op = "reject_mortgage_offer"
        THEN <<<<"mortgage_reject", {db[p].mortgages[target].bank}>>>>
        ELSE IF op = "place_loan_offer"
        THEN <<<<"investment_offer",
                 {db[p].loan_requests[db[p].mortgages[target].request_id].user_key}>>>>
        ELSE IF op = "accept_investment_offer"
        THEN <<<<"investment_accept", {db[p].investments[target].investor_key}>>>>
        ELSE <<<<"investment_reject", {db[p].investments[target].investor_key}>>>>

\* C21: a mutating operation that succeeds appends to the queue exactly the
\* message(s) assigned to it, addressed to the assigned receivers, and one that
\* fails leaves the queue as it was.
C21_Step ==
    \A p \in Participants :
        Called(p, EngineOps)
        => /\ Len(queue'[p]) >= Len(queue[p])
           /\ SubSeq(queue'[p], 1, Len(queue[p])) = queue[p]
           /\ Enqueued(p) = IF last'.res = "ok" THEN Assigned(p) ELSE <<>>

C21_AssignedMessagesEnqueued == [][C21_Step]_vars

\* C21 witness: acceptMortgageOffer has succeeded and the queue ends with the
\* signed message to the bank followed by the broadcast
C21_Witness ==
    /\ last.op = "accept_mortgage_offer"
    /\ last.res = "ok"
    /\ Len(queue[last.p]) = 2
    /\ queue[last.p][1].request = "mortgage_accept_signed"
    /\ queue[last.p][1].receivers # {}
    /\ queue[last.p][2].request = "mortgage_accept_unsigned"

\* C22: the counterparty answers a proposal exactly when its own copy of the
\* agreement, looked up by type and id, equals the snapshot in the proposal;
\* the response carries the proposal's benefactor, agreement and timestamp and
\* the counterparty's id as beneficiary; a differing or missing copy gives no
\* response.
C22_Step ==
    \A c \in DOMAIN db :
        Called(c, {"allow_signed_confirm"})
        => \E msg \in wire \ wire' :
              /\ ~msg.response
              /\ msg.to = c
              /\ msg.id = last'.target
              /\ LET agreement == msg.payload.agreement
                     table == IF agreement.type = "mortgage" THEN db[c].mortgages
                              ELSE db[c].investments
                     equal == /\ Has(table, agreement.id)
                              /\ table[agreement.id] = agreement.model
                 IN  wire' \ wire =
                        IF equal
                        THEN {[id |-> msg.id, from |-> c, to |-> msg.from,
                               response |-> TRUE,
                               payload |-> [benefactor |-> msg.payload.benefactor,
                                            beneficiary |-> c,
                                            agreement |-> agreement,
                                            time |-> msg.payload.time]]}
                        ELSE {}

C23_Checks(i, request, msg) ==
    LET mortgage == request.payload.agreement.model IN
    /\ Has(db[i].loan_requests, mortgage.request_id)
    /\ msg.payload.beneficiary = db[i].loan_requests[mortgage.request_id].user_key
    /\ msg.payload.benefactor = i
    /\ msg.payload.agreement = request.payload.agreement

\* C23: a handshake becomes COUNTERSIGNED only on a response whose beneficiary
\* is the borrower of the agreement's loan request, whose benefactor is the
\* initiator and whose agreement equals the one proposed; a response failing
\* one of these checks is rejected and changes no store, queue or Directory.
C23_Step ==
    /\ \A h \in DOMAIN requests :
          requests[h].state # "COUNTERSIGNED" /\ requests'[h].state = "COUNTERSIGNED"
          => /\ last'.op = "allow_signed_confirm_response"
             /\ last'.target = h
    /\ \A i \in DOMAIN db :
          Called(i, {"allow_signed_confirm_response"})
          => \E msg \in wire \ wire' :
                /\ msg.response
                /\ msg.to = i
                /\ msg.id = last'.target
                /\ requests'[msg.id].state = "COUNTERSIGNED"
                      => C23_Checks(i, requests[msg.id], msg)
                /\ ~C23_Checks(i, requests[msg.id], msg)
                      => /\ requests'[msg.id].state = "REJECTED"
                         /\ last'.res = "False"
                         /\ UNCHANGED <<db, held, queue, ids, directory>>

Handshakes == 1..MaxCampaigns

\* the steps of the Agreement Protocol after the proposal was sent
SignOps == {"allow_signed_confirm", "foreign_response",
            "allow_signed_confirm_response", "late_response", "timeout"}

\* the counterparty's copy differed from the snapshot of handshake h
C24_Stale(h) == h \in DOMAIN requests /\ requests[h].copy = "differs"

C24_NoResponse ==
    /\ DOMAIN requests \subseteq Handshakes
    /\ \A h \in DOMAIN requests :
          C24_Stale(h)
          => /\ requests[h].state \in {"PROPOSED", "TIMED_OUT"}
             /\ \A msg \in wire : msg.id = h => ~msg.response

C24_Step ==
    (/\ last'.op \in SignOps
     /\ last'.target \in DOMAIN requests'
     /\ requests'[last'.target].copy = "differs")
        => UNCHANGED <<db, held, queue, ids, directory>>

Statuses(st) ==
    [loan_requests |-> [id \in DOMAIN st.loan_requests |-> st.loan_requests[id].status],
     mortgages |-> [id \in DOMAIN st.mortgages |-> st.mortgages[id].status],
     investments |-> [id \in DOMAIN st.investments |-> st.investments[id].status]]

\* C25: no step of the Agreement Protocol changes the status of a Mortgage,
\* Investment or LoanRequest: after the proposal was sent every step leaves
\* the statuses of every store as they were, and the delivery that makes the
\* bank propose leaves the bank with the status the borrower's
\* accept_mortgage_offer committed and changes no other status there.
C25_Step ==
    /\ last'.op \in SignOps
          => \A p \in DOMAIN db : Statuses(db'[p]) = Statuses(db[p])
    /\ Len(requests') > Len(requests)
          => LET request == requests'[Len(requests')]
                 agreement == request.payload.agreement
                 before == Statuses(db[request.initiator])
                 after == Statuses(db'[request.initiator])
             IN  /\ after.loan_requests = before.loan_requests
                 /\ after.investments = before.investments
                 /\ DOMAIN after.mortgages = DOMAIN before.mortgages \cup {agreement.id}
                 /\ \A id \in DOMAIN after.mortgages :
                       after.mortgages[id] = IF id = agreement.id
                                             THEN agreement.model.status
                                             ELSE before.mortgages[id]
                 /\ agreement.model.status = "ACCEPTED"

C25_HandshakeChangesNoStatus == [][C25_Step]_vars

\* C25 witness: a handshake has succeeded and the mortgage is as the
\* acceptance left it
C25_Witness ==
    /\ last.op = "allow_signed_confirm_response"
    /\ last.res = "True"
    /\ requests[last.target].state = "COUNTERSIGNED"
    /\ requests[last.target].copy = "equal"
    /\ db[last.p].mortgages[requests[last.target].payload.agreement.id].status
          = "ACCEPTED"

\* C26: when the bank has no Directory entry for the borrower whose
\* mortgage_accept_signed it receives, starting the handshake fails: no
\* proposal is created or sent and no signature request is left pending.
C26_Step ==
    \A p \in DOMAIN db :
        (/\ Called(p, {"send"})
         /\ queue[p] # <<>>
         /\ Head(queue[p]).request = "mortgage_accept_signed"
         /\ \A r \in Recipients(p, Head(queue[p])) : p \notin DOMAIN directory[r])
        => /\ requests' = requests
           /\ wire' = wire

C26_UnknownCandidateStartsNothing == [][C26_Step]_vars

\* C26 witness: bank x has received the borrower's acceptance without knowing
\* the borrower's endpoint, and no handshake exists
C26_Witness ==
    /\ last.op = "send"
    /\ last.p = "b1"
    /\ "b1" \notin DOMAIN directory["x"]
    /\ \E id \in DOMAIN db["x"].mortgages : db["x"].mortgages[id].status = "ACCEPTED"
    /\ requests = <<>>
    /\ wire = {}

Terminal == {"COUNTERSIGNED", "REJECTED", "TIMED_OUT"}

\* the proposals on the wire
Proposals(w) == {msg \in w : ~msg.response}

\* a handshake is in PROPOSED or in one terminal state, and there are no more
\* handshakes than acceptances
C27_States ==
    /\ DOMAIN requests \subseteq Handshakes
    /\ \A h \in DOMAIN requests : requests[h].state \in {"PROPOSED"} \cup Terminal

\* a terminal state is never left, and a proposal is sent only for a new
\* handshake, one per delivery of a mortgage_accept_signed message to the bank
C27_Step ==
    /\ Len(requests') >= Len(requests)
    /\ \A h \in DOMAIN requests :
          /\ requests'[h].payload = requests[h].payload
          /\ requests[h].state \in Terminal => requests'[h].state = requests[h].state
    /\ Proposals(wire') \ Proposals(wire) =
          {[id |-> h, from |-> requests'[h].initiator, to |-> requests'[h].candidate,
            response |-> FALSE, payload |-> requests'[h].payload] :
               h \in DOMAIN requests' \ DOMAIN requests}
    /\ Len(requests') > Len(requests)
          => /\ Len(requests') = Len(requests) + 1
             /\ last'.op = "send"
             /\ queue[last'.p] # <<>>
             /\ Head(queue[last'.p]).request = "mortgage_accept_signed"
             /\ requests'[Len(requests')].state = "PROPOSED"

\* C27: every handshake that enters PROPOSED reaches one of COUNTERSIGNED,
\* REJECTED and TIMED_OUT (the timeout of a pending request fires) and never
\* leaves it, and a proposal is never sent again: one proposal at most for each
\* mortgage_accept_signed message received.
C27_HandshakeTerminates ==
    /\ []C27_States
    /\ [][C27_Step]_vars
    /\ \A h \in Handshakes :
          (h \in DOMAIN requests)
             ~> (h \in DOMAIN requests /\ requests[h].state \in Terminal)

\* C27 witness: two handshakes have ended, one of them timed out, and nothing
\* is left on the wire or in the borrower's queue
C27_Witness ==
    /\ Len(requests) = 2
    /\ \A h \in DOMAIN requests : requests[h].state \in Terminal
    /\ \E h \in DOMAIN requests : requests[h].state = "TIMED_OUT"
    /\ Proposals(wire) = {}
    /\ queue["b1"] = <<>>

\* C28: an introduce_user about another user replaces the stored record of a
\* financial institution by the received one, storing it when it was absent,
\* inserts the record of any other role only when absent and leaves a stored
\* one unchanged; an introduce_user about the local user changes neither the
\* store nor the Directory.
C28_Step ==
    \A r \in DOMAIN db :
        Called(r, {"introduce_user"})
        => LET id == last'.actor
               obj == last'.out[2]
           IN  IF id = r
               THEN db'[r] = db[r] /\ directory'[r] = directory[r]
               ELSE /\ Has(db'[r].users, id)
                    /\ db'[r].users[id] =
                          IF RoleOf(id) = "FINANCIAL_INSTITUTION" THEN obj
                          ELSE IF Has(db[r].users, id) THEN db[r].users[id]
                          ELSE obj
                    /\ \A u \in DOMAIN db[r].users \ {id} :
                          /\ Has(db'[r].users, u)
                          /\ db'[r].users[u] = db[r].users[u]

C28_IntroductionUpserts == [][C28_Step]_vars


\* C29: every user id with an endpoint in a participant's Directory has a User
\* record in that participant's store, financial institutions included, from
\* the first introduction on.
C29_DirectoryUsersStored ==
    \A p \in DOMAIN db :
        \A u \in DOMAIN directory[p] : Has(db[p].users, u)

\* C30: handling the same introduce_user message a second time right after the
\* first leaves the stored User records and the Directory as the first
\* handling left them, whatever the role of the introduced user and whatever
\* the store held before.
C30_Step ==
    \A r \in DOMAIN db :
        Called(r, {"introduce_user"})
        => LET again == on_user_introduction(db'[r], directory'[r], r,
                                             last'.out[1], last'.actor, last'.out[2])
           IN  /\ again.st = db'[r]
               /\ again.dir = directory'[r]

C30_IntroductionIdempotent == [][C30_Step]_vars

\* C30 witness: an introduction has replaced the stored record of bank y and
\* registered y's endpoint, while borrower b1 is stored and registered too
C30_Witness ==
    /\ last.op = "introduce_user"
    /\ last.actor = "y"
    /\ Has(db[last.p].users, "y")
    /\ db[last.p].users["y"] = last.out[2]
    /\ db[last.p].users["y"] # NewUser
    /\ directory[last.p]["y"] = last.out[1]
    /\ Has(db[last.p].users, "b1")
    /\ "b1" \in DOMAIN directory[last.p]

\* C31: a model_request_response merges each entity it carries as
\* introduce_user does: the record of a financial institution replaces the
\* stored one, any other entity is stored only when none with its id is, and a
\* stored one of these is left as it is (the receiver's own record aside, which
\* introduce_user does not merge).
C31_Step ==
    \A r \in DOMAIN db :
        Called(r, {"model_request_response"})
        => LET type == last'.out[1]
               id == last'.out[2]
               obj == last'.out[3]
               canonical == type = "users" /\ RoleOf(id) = "FINANCIAL_INSTITUTION"
           IN  (type = "users" /\ id = r) \/
               /\ Has(db'[r][type], id)
               /\ db'[r][type][id] = IF canonical THEN obj
                                     ELSE IF Has(db[r][type], id) THEN db[r][type][id]
                                     ELSE obj
               /\ \A i \in DOMAIN db[r][type] \ {id} :
                     Has(db'[r][type], i) /\ db'[r][type][i] = db[r][type][i]

C31_ResponseMergedByUpsertPolicy == [][C31_Step]_vars

\* every enqueued message has been delivered
Delivered == \A p \in DOMAIN db : queue[p] = <<>>

\* what of an entity has to agree between replicas: its status and, for a
\* campaign, the amount that remains
Replicated(type, e) ==
    IF type = "campaigns" THEN <<e.amount, e.completed>> ELSE e.status

\* C32: once every enqueued message has been delivered (and local operations
\* have stopped, so that the state stays as it is), every participant that
\* holds a copy of a LoanRequest, Mortgage, Investment or Campaign holds the
\* status and remaining amount of the participant that changed it last; all
\* copies then agree.
C32_ReplicasConverge ==
    Delivered
    => \A type \in {"loan_requests", "mortgages", "investments", "campaigns"} :
          \A p, q \in DOMAIN db :
             \A id \in DOMAIN db[p][type] \cap DOMAIN db[q][type] :
                Replicated(type, db[p][type][id]) = Replicated(type, db[q][type][id])

\* C33: no inbound handler ends with an exception: not the handler of a
\* delivered API message, whatever the receiver's store holds, and not
\* on_model_request, whether the id asked for is stored or not.
C33_Step ==
    /\ \A p \in DOMAIN db :
          (Called(p, {"send"}) /\ queue[p] # <<>>)
          => \A r \in Recipients(p, Head(queue[p])) :
                Raises(db[r], r, p, db[p].users[p], Head(queue[p])) = "none"
    /\ last'.op = "model_request" => last'.res = "none"

C33_NoHandlerRaises == [][C33_Step]_vars

\* C34: the post of an entity whose id is not stored returns the id, and a get
\* of that id then returns the entity posted; the post of an entity whose id
\* is stored fails and leaves the stored entity as it was.  Checked on the
\* posts of on_model_request_response, for User records and houses.
C34_Step ==
    \A r \in DOMAIN db :
        Called(r, {"model_request_response"})
        => LET type == last'.out[1]
               id == last'.out[2]
               obj == last'.out[3]
           IN  IF Has(db[r][type], id)
               THEN /\ db_post(db[r][type], id, obj).id = None
                    /\ db'[r][type] = db[r][type]
               ELSE /\ db_post(db[r][type], id, obj).id = id
                    /\ Get(db'[r][type], id) = obj
                    /\ \A i \in DOMAIN db[r][type] : Get(db'[r][type], i) = db[r][type][i]

NoDuplicates(s) == \A i, j \in 1..Len(s) : s[i] = s[j] => i = j

\* C35: in every store, none of a User's lists of loan-request, mortgage,
\* investment and campaign ids holds an id twice.
C35_NoIdTwice ==
    \A p \in DOMAIN db :
        \A u \in DOMAIN db[p].users :
            /\ NoDuplicates(db[p].users[u].loan_request_ids)
            /\ NoDuplicates(db[p].users[u].mortgage_ids)
            /\ NoDuplicates(db[p].users[u].investment_ids)
            /\ NoDuplicates(db[p].users[u].campaign_ids)

\* C36: the keys of a LoanRequest's status map are the banks invited when the
\* request was created, in every store and every reachable state.
C36_StatusKeysAreTheInvitedBanks ==
    \A p \in DOMAIN db :
        \A id \in DOMAIN db[p].loan_requests :
            DOMAIN db[p].loan_requests[id].status = Range(db[p].loan_requests[id].banks)

\* C37: the remaining amount of a Campaign is its funding goal less the sum of
\* the amounts of the ACCEPTED Investments on the Campaign's mortgage, in
\* every reachable state.
C37_RemainingIsGoalLessAccepted ==
    \A p \in DOMAIN db :
        \A c \in DOMAIN db[p].campaigns :
            db[p].campaigns[c].amount =
                db[p].campaigns[c].goal
                    - SumAmounts(p, AcceptedOn(p, db[p].campaigns[c].mortgage_id))

\* C38: in every store there is at most one Campaign per Mortgage, and a
\* Campaign only for a Mortgage whose status is ACCEPTED; accepting a mortgage
\* again creates no second Campaign and leaves the mortgage's campaign id.
C38_State ==
    \A p \in DOMAIN db :
        \A c \in DOMAIN db[p].campaigns :
            LET m == db[p].campaigns[c].mortgage_id IN
            /\ \A d \in DOMAIN db[p].campaigns : db[p].campaigns[d].mortgage_id = m => d = c
            /\ Has(db[p].mortgages, m) => db[p].mortgages[m].status = "ACCEPTED"

C38_Step ==
    \A p \in DOMAIN db :
        \A m \in DOMAIN db[p].mortgages :
            (Called(p, {"accept_mortgage_offer"}) /\ db[p].mortgages[m].campaign_id # 0)
            => db'[p].mortgages[m].campaign_id = db[p].mortgages[m].campaign_id

C38_OneCampaignPerAcceptedMortgage == []C38_State /\ [][C38_Step]_vars

\* C39: reject_loan_request(bank, requestId) writes to no LoanRequest but the
\* one with id requestId and takes no other id from a user's list of loan
\* requests: every other request keeps its stored record and its place in
\* the lists, also when it is the borrower's current request.
C39_Step ==
    \A p \in DOMAIN db :
        Called(p, {"reject_loan_request"})
        => /\ \A id \in DOMAIN db[p].loan_requests \ {last'.target} :
                 /\ Has(db'[p].loan_requests, id)
                 /\ db'[p].loan_requests[id] = db[p].loan_requests[id]
           /\ \A u \in DOMAIN db[p].users :
                 \A id \in Range(db[p].users[u].loan_request_ids) \ {last'.target} :
                    InSeq(db'[p].users[u].loan_request_ids, id)

C39_RejectTouchesItsRequestOnly == [][C39_Step]_vars

\* the operations that add an id to a User's list
AppendingOps == {"create_loan_request", "accept_mortgage_offer", "place_loan_offer",
                 "accept_loan_request"}

IdLists == {"loan_request_ids", "mortgage_ids", "investment_ids", "campaign_ids"}

\* C40: an operation never writes back a User object that is older than the
\* stored one: every id in a stored User's lists, the ids appended by inbound
\* handlers included, is still there after create_loan_request,
\* accept_mortgage_offer, place_loan_offer and accept_loan_request, and
\* create_loan_request succeeds only when the stored User has no open request.
C40_Step ==
    \A p \in DOMAIN db :
        /\ Called(p, AppendingOps)
              => \A u \in DOMAIN db[p].users : \A l \in IdLists :
                    Range(db[p].users[u][l]) \subseteq Range(db'[p].users[u][l])
        /\ (Called(p, {"create_loan_request"}) /\ last'.res = "ok")
              => db[p].users[last'.actor].loan_request_ids = <<>>

C40_NoLostUpdate == [][C40_Step]_vars

=============================================================================
